---- MODULE Spec2Model ----
(***************************************************************************)
(* Model of the coverage-tracking engine of cypress-rtm-plugin:            *)
(* CypressRTM (src/core.js) and the task handlers of RTMTasks              *)
(* (src/tasks.js).                                                         *)
(*                                                                         *)
(* JavaScript values are represented as follows.                           *)
(*  - An object is a function from its present (truthy) keys to values; a  *)
(*    key that is missing is not in the DOMAIN.                            *)
(*  - A list-valued field holds [isArray |-> TRUE, items |-> <<...>>].     *)
(*    A string put where a list is expected holds isArray = FALSE and, as  *)
(*    items, the characters a spread of the string iterates over.          *)
(*  - A Map is a function from its keys; a Set is a duplicate-free         *)
(*    sequence in insertion order.                                         *)
(***************************************************************************)
EXTENDS Integers, Sequences, FiniteSets, TLC

VARIABLES
  phase,         \* "constructed" | "ready" | "init_error"
  requirements,  \* this.requirements : Map id -> requirement record
  userStories,   \* this.userStories  : Map id -> user-story record
  testCases,     \* this.testCases    : Map id -> test-case record
  suites,        \* this.suites       : Map id -> suite record
  coverage,      \* this.coverage     : {requirements, stories, types:{requirements, tests}}
  clock,         \* the host clock read by new Date()
  calls,         \* number of calls the host has made since init()
  lastCall,      \* the last call made by the host: [op, arg, threw, ret, again]
  reportRun      \* generateReports in flight: [data, pending, files]

vars ==
  <<phase, requirements, userStories, testCases, suites, coverage, clock, calls, lastCall,
    reportRun>>

(***************************************************************************)
(* Bounds of the model.                                                    *)
(***************************************************************************)
MaxTests == 2
MaxCalls == 3
MaxClock == 1

(***************************************************************************)
(* src/constants.js                                                        *)
(***************************************************************************)
REQUIREMENT_TYPES ==
  {"functional", "security", "performance", "accessibility",
   "compliance", "technical", "infrastructure"}

TEST_TYPES ==
  {"unit", "integration", "e2e", "api", "performance", "security",
   "accessibility", "smoke"}

REQUIREMENT_PRIORITIES == {"p0-critical", "p1-high", "p2-medium", "p3-low"}

TEST_PRIORITIES == {"p1-must-run", "p2-high-value", "p3-nice-to-have", "p4-edge-cases"}

(***************************************************************************)
(* JavaScript helpers.                                                     *)
(***************************************************************************)
List(s) == [isArray |-> TRUE, items |-> s]

Str(chars) == [isArray |-> FALSE, items |-> chars]

Has(obj, key) == key \in DOMAIN obj

Range(s) == {s[i] : i \in 1..Len(s)}

EmptyMap == [k \in {} |-> <<>>]

MapSet(m, k, v) == [x \in (DOMAIN m) \cup {k} |-> IF x = k THEN v ELSE m[x]]

\* add() that appends without looking for the element
SetAdd_Append(s, x) == Append(s, x)

SetAdd(s, x) == IF x \in Range(s) THEN s ELSE Append(s, x)

RECURSIVE Dedup(_)
Dedup(s) ==
  IF s = <<>> THEN <<>>
  ELSE LET front == Dedup(SubSeq(s, 1, Len(s) - 1))
       IN SetAdd(front, s[Len(s)])


Without(obj, key) == [x \in (DOMAIN obj) \ {key} |-> obj[x]]

(***************************************************************************)
(* Inputs: the fixture files read by init().  A file is the sequence of    *)
(* its Object.entries, or unreadable.                                      *)
(***************************************************************************)
REQ001 == [id |-> "REQ-001", title |-> "User Authentication",
           type |-> "functional", priority |-> "p0-critical"]

REQ002 == [id |-> "REQ-002", title |-> "Password Storage",
           type |-> "security", priority |-> "p1-high"]

US001 == [id |-> "US-001", title |-> "Login Flow", linkedRequirements |-> <<"REQ-001">>]

US002 == [id |-> "US-002", title |-> "Reset Password"]

File(entries) == [readable |-> TRUE, entries |-> entries]

Unreadable == [readable |-> FALSE, entries |-> <<>>]

GoodRequirementsFile == File(<< <<"REQ-001", REQ001>>, <<"REQ-002", REQ002>> >>)

BadRequirementsFile == File(<< <<"REQ-001", REQ001>>, <<"REQ-002", Without(REQ002, "title")>> >>)

GoodUserStoriesFile == File(<< <<"US-001", US001>>, <<"US-002", US002>> >>)

BadUserStoriesFile == File(<< <<"US-001", US001>>, <<"US-002", Without(US002, "title")>> >>)

Fixtures ==
  { [requirementsFile |-> GoodRequirementsFile, userStoriesFile |-> GoodUserStoriesFile],
    [requirementsFile |-> BadRequirementsFile,  userStoriesFile |-> GoodUserStoriesFile],
    [requirementsFile |-> GoodRequirementsFile, userStoriesFile |-> BadUserStoriesFile],
    [requirementsFile |-> File(<<>>),           userStoriesFile |-> File(<<>>)],
    [requirementsFile |-> Unreadable,           userStoriesFile |-> GoodUserStoriesFile] }

(***************************************************************************)
(* Inputs: candidate test cases and suites handed to the handlers.         *)
(***************************************************************************)
TestIdPool == <<"TC-001", "TC-002", "TC-003", "TC-004">>

TestIds == {TestIdPool[i] : i \in 1..MaxTests}

BaseTestCase(id) ==
  [id |-> id, title |-> "Test Case", type |-> "e2e",
   priority |-> "p1-must-run", automated |-> TRUE]

Linked(id, type, reqs, stories) ==
  MapSet(MapSet(MapSet(BaseTestCase(id), "type", type), "requirements", reqs),
         "userStories", stories)

InSuite(tc, suiteId) == MapSet(tc, "suiteId", suiteId)

\* Candidates that satisfy TEST_CASE_SCHEMA as far as validateTestCase looks,
\* for every test id.
LinkedCandidates(id) ==
  { Linked(id, "e2e", List(<<"REQ-001">>), List(<<"US-001">>)),
    Linked(id, "security", List(<<"REQ-002">>), List(<<"US-002">>)),
    InSuite(MapSet(MapSet(BaseTestCase(id), "requirements", List(<<"REQ-002">>)),
                   "tags", List(<<"smoke">>)), "TS-001"),
    Linked(id, "e2e", List(<<>>), List(<<"US-404">>)),
    Linked(id, "e2e", List(<<"REQ-001">>), Str(<<"U", "S", "-", "0", "0", "1">>)) }

\* Candidates with a required field missing or out of its enum, a requirements
\* field that is not a list, or a requirement id that is not loaded.
MalformedCandidates ==
  LET tc == Linked(TestIdPool[1], "e2e", List(<<"REQ-001">>), List(<<"US-001">>))
  IN { Without(tc, "id"),
       Without(tc, "title"),
       Without(tc, "type"),
       Without(tc, "priority"),
       MapSet(tc, "type", "invalid-type"),
       MapSet(tc, "priority", "p9-never"),
       MapSet(tc, "requirements", Str(<<"R", "E", "Q", "-", "0", "0", "1">>)),
       MapSet(tc, "requirements", List(<<"REQ-001", "REQ-404">>)) }

Candidates == MalformedCandidates \cup UNION {LinkedCandidates(id) : id \in TestIds}

SuiteInputs ==
  { [id |-> "TS-001", title |-> "Suite", type |-> "e2e", priority |-> "p1-must-run",
     requirements |-> List(<<"REQ-001">>), userStories |-> List(<<"US-001">>),
     tags |-> List(<<"regression">>)],
    [id |-> "TS-001", title |-> "Suite", requirements |-> List(<<"REQ-404", "REQ-002">>)] }

SuiteIds == {"TS-001", "TS-404"}

RequirementIds == {"REQ-001", "REQ-002", "REQ-404"}

StoryIds == {"US-001", "US-002", "US-404"}

(***************************************************************************)
(* CypressRTM: construction and loading (src/core.js).                     *)
(***************************************************************************)
\* again: the call repeats the previous one (same handler, same argument)
Call(op, arg, threw, ret) ==
  [op |-> op, arg |-> arg, threw |-> threw, ret |-> ret,
   again |-> (lastCall.op = op /\ lastCall.arg = arg)]

Init ==
  /\ phase = "constructed"
  /\ requirements = EmptyMap
  /\ userStories = EmptyMap
  /\ testCases = EmptyMap
  /\ suites = EmptyMap
  /\ coverage = [requirements |-> EmptyMap, stories |-> EmptyMap,
                 types |-> [requirements |-> EmptyMap, tests |-> EmptyMap]]
  /\ clock = 0
  /\ calls = 0
  /\ lastCall = [op |-> "constructor", arg |-> "", threw |-> "none",
                 ret |-> "undefined", again |-> FALSE]
  /\ reportRun = [data |-> <<>>, pending |-> {}, files |-> EmptyMap]

validateRequirement(requirement) ==
  /\ Has(requirement, "id") /\ Has(requirement, "title")
  /\ Has(requirement, "type") /\ Has(requirement, "priority")
  /\ requirement.type \in REQUIREMENT_TYPES
  /\ requirement.priority \in REQUIREMENT_PRIORITIES

RECURSIVE loadRequirements(_, _, _)
loadRequirements(store, file, i) ==
  IF ~file.readable THEN [store |-> store, threw |-> "REQUIREMENTS_LOAD_ERROR"]
  ELSE IF i > Len(file.entries) THEN [store |-> store, threw |-> "none"]
  ELSE IF validateRequirement(file.entries[i][2])
       THEN loadRequirements(MapSet(store, file.entries[i][1], file.entries[i][2]), file, i + 1)
       ELSE [store |-> store, threw |-> "INVALID_REQUIREMENT"]

RECURSIVE loadUserStories(_, _, _)
loadUserStories(store, file, i) ==
  IF ~file.readable THEN [store |-> store, threw |-> "USER_STORIES_LOAD_ERROR"]
  ELSE IF i > Len(file.entries) THEN [store |-> store, threw |-> "none"]
  ELSE IF Has(file.entries[i][2], "id") /\ Has(file.entries[i][2], "title")
       THEN loadUserStories(MapSet(store, file.entries[i][1], file.entries[i][2]), file, i + 1)
       ELSE [store |-> store, threw |-> "INVALID_USER_STORY"]

initializeCoverageMaps(cov, reqs, stories) ==
  [cov EXCEPT
     !.types.requirements =
        [t \in (DOMAIN @) \cup {reqs[r].type : r \in DOMAIN reqs} |->
           IF t \in DOMAIN @ THEN @[t] ELSE <<>>],
     !.stories =
        [s \in (DOMAIN @) \cup (DOMAIN stories) |->
           IF s \in DOMAIN @ THEN @[s] ELSE <<>>]]

init(fixture) ==
  /\ phase = "constructed"
  /\ LET r == loadRequirements(requirements, fixture.requirementsFile, 1)
         s == IF r.threw = "none"
              THEN loadUserStories(userStories, fixture.userStoriesFile, 1)
              ELSE [store |-> userStories, threw |-> r.threw]
     IN /\ requirements' = r.store
        /\ userStories' = s.store
        /\ IF s.threw = "none"
           THEN /\ coverage' = initializeCoverageMaps(coverage, r.store, s.store)
                /\ phase' = "ready"
                /\ lastCall' = Call("init", fixture, "none", "true")
           ELSE /\ coverage' = coverage
                /\ phase' = "init_error"
                /\ lastCall' = Call("init", fixture, "INIT_ERROR", "undefined")
  /\ UNCHANGED <<testCases, suites, clock, calls, reportRun>>

(***************************************************************************)
(* CypressRTM: validation and registration of test cases (src/core.js).    *)
(***************************************************************************)
\* validateTestCase without the lookup of the referenced requirement ids
validateTestCase_NoReferenceCheck(testCase) ==
  /\ Has(testCase, "id") /\ Has(testCase, "title")
  /\ Has(testCase, "type") /\ Has(testCase, "priority")
  /\ testCase.type \in TEST_TYPES
  /\ testCase.priority \in TEST_PRIORITIES
  /\ Has(testCase, "requirements") => testCase.requirements.isArray

validateTestCase(testCase) ==
  /\ Has(testCase, "id") /\ Has(testCase, "title")
  /\ Has(testCase, "type") /\ Has(testCase, "priority")
  /\ testCase.type \in TEST_TYPES
  /\ testCase.priority \in TEST_PRIORITIES
  /\ Has(testCase, "requirements") =>
       /\ testCase.requirements.isArray
       /\ \A i \in 1..Len(testCase.requirements.items) :
            testCase.requirements.items[i] \in DOMAIN requirements

\* the set is replaced by a fresh one on every touch
CoverageAdd_FreshSet(map, key, testId) == MapSet(map, key, <<testId>>)

\* if (!map.has(key)) map.set(key, new Set()); map.get(key).add(testId)
CoverageAdd(map, key, testId) ==
  MapSet(map, key, SetAdd(IF key \in DOMAIN map THEN map[key] ELSE <<>>, testId))

\* the per-type index is not updated along with the per-requirement index
RECURSIVE updateRequirementsCoverage_NoTypeIndex(_, _, _, _)
updateRequirementsCoverage_NoTypeIndex(cov, reqIds, i, testId) ==
  IF i > Len(reqIds) THEN cov
  ELSE updateRequirementsCoverage_NoTypeIndex(
         [cov EXCEPT !.requirements = CoverageAdd(@, reqIds[i], testId)],
         reqIds, i + 1, testId)

RECURSIVE updateRequirementsCoverage(_, _, _, _)
updateRequirementsCoverage(cov, reqIds, i, testId) ==
  IF i > Len(reqIds) THEN cov
  ELSE LET reqId == reqIds[i]
           c1 == [cov EXCEPT !.requirements = CoverageAdd(@, reqId, testId)]
           c2 == IF reqId \in DOMAIN requirements /\ Has(requirements[reqId], "type")
                 THEN [c1 EXCEPT !.types.requirements =
                                    CoverageAdd(@, requirements[reqId].type, testId)]
                 ELSE c1
       IN updateRequirementsCoverage(c2, reqIds, i + 1, testId)

RECURSIVE updateStoriesCoverage(_, _, _, _)
updateStoriesCoverage(cov, storyIds, i, testId) ==
  IF i > Len(storyIds) THEN cov
  ELSE updateStoriesCoverage([cov EXCEPT !.stories = CoverageAdd(@, storyIds[i], testId)],
                             storyIds, i + 1, testId)

\* the test-type mapping is left alone
updateTestTypeCoverage_Skipped(cov, testCase) == cov

updateTestTypeCoverage(cov, testCase) ==
  [cov EXCEPT !.types.tests = CoverageAdd(@, testCase.type, testCase.id)]

\* the memberships of an earlier record under the same id are removed first
CypressRTM_addTestCase_ForgetsOldLinks(testCase) ==
  IF ~validateTestCase(testCase)
  THEN [testCases |-> testCases, coverage |-> coverage, threw |-> "INVALID_TEST_CASE"]
  ELSE LET purge(m) == [k \in DOMAIN m |-> SelectSeq(m[k], LAMBDA x : x # testCase.id)]
           c0 == [requirements |-> purge(coverage.requirements),
                  stories |-> purge(coverage.stories),
                  types |-> [requirements |-> purge(coverage.types.requirements),
                             tests |-> purge(coverage.types.tests)]]
           stored == MapSet(testCases, testCase.id, testCase)
           c1 == IF Has(testCase, "requirements")
                 THEN updateRequirementsCoverage(c0, testCase.requirements.items,
                                                 1, testCase.id)
                 ELSE c0
       IN IF Has(testCase, "userStories") /\ ~testCase.userStories.isArray
          THEN [testCases |-> stored, coverage |-> c1, threw |-> "TypeError"]
          ELSE LET c2 == IF Has(testCase, "userStories")
                         THEN updateStoriesCoverage(c1, testCase.userStories.items,
                                                    1, testCase.id)
                         ELSE c1
               IN [testCases |-> stored,
                   coverage |-> updateTestTypeCoverage(c2, testCase),
                   threw |-> "none"]

\* The effect of CypressRTM.addTestCase on the stores, and what it throws.
\* A truthy userStories without forEach raises a TypeError at line 233.
\* stores: the test-case store and the coverage index the method works on.
addTestCaseOn(stores, testCase) ==
  IF ~validateTestCase(testCase)
  THEN [testCases |-> stores.testCases, coverage |-> stores.coverage,
        threw |-> "INVALID_TEST_CASE"]
  ELSE LET stored == MapSet(stores.testCases, testCase.id, testCase)
           c1 == IF Has(testCase, "requirements")
                 THEN updateRequirementsCoverage(stores.coverage,
                                                 testCase.requirements.items,
                                                 1, testCase.id)
                 ELSE stores.coverage
       IN IF Has(testCase, "userStories") /\ ~testCase.userStories.isArray
          THEN [testCases |-> stored, coverage |-> c1, threw |-> "TypeError"]
          ELSE LET c2 == IF Has(testCase, "userStories")
                         THEN updateStoriesCoverage(c1, testCase.userStories.items,
                                                    1, testCase.id)
                         ELSE c1
               IN [testCases |-> stored,
                   coverage |-> updateTestTypeCoverage(c2, testCase),
                   threw |-> "none"]

CypressRTM_addTestCase(testCase) ==
  addTestCaseOn([testCases |-> testCases, coverage |-> coverage], testCase)

addTestCase(testCase) ==
  /\ phase = "ready"
  /\ calls < MaxCalls
  /\ calls' = calls + 1
  /\ LET r == CypressRTM_addTestCase(testCase)
     IN /\ testCases' = r.testCases
        /\ coverage' = r.coverage
        /\ lastCall' = Call("addTestCase", testCase, r.threw, "undefined")
  /\ UNCHANGED <<phase, requirements, userStories, suites, clock, reportRun>>

(***************************************************************************)
(* RTMTasks: the task handlers (src/tasks.js).  The handlers are           *)
(* registered with the host once init() has resolved (README, Setup), so   *)
(* the host calls them in phase "ready" only.                              *)
(***************************************************************************)
Bool(b) == IF b THEN "true" ELSE "false"

\* if (exists && !coverage.requirements.has(reqId)) coverage.requirements.set(reqId, new Set())
seedRequirementCoverage(cov, reqId) ==
  IF reqId \in DOMAIN requirements /\ reqId \notin DOMAIN cov.requirements
  THEN [cov EXCEPT !.requirements = MapSet(@, reqId, <<>>)]
  ELSE cov

\* if (exists && !coverage.stories.has(storyId)) coverage.stories.set(storyId, new Set())
seedStoryCoverage(cov, storyId) ==
  IF storyId \in DOMAIN userStories /\ storyId \notin DOMAIN cov.stories
  THEN [cov EXCEPT !.stories = MapSet(@, storyId, <<>>)]
  ELSE cov

\* the coverage entry is seeded whether or not the requirement exists
rtm_validateRequirement_SeedsUnknown(reqId) ==
  /\ phase = "ready"
  /\ calls < MaxCalls
  /\ calls' = calls + 1
  /\ LET exists == reqId \in DOMAIN requirements
     IN /\ coverage' = IF reqId \notin DOMAIN coverage.requirements
                       THEN [coverage EXCEPT !.requirements = MapSet(@, reqId, <<>>)]
                       ELSE coverage
        /\ lastCall' = Call("rtm:validateRequirement", reqId, "none", Bool(exists))
  /\ UNCHANGED <<phase, requirements, userStories, testCases, suites, clock, reportRun>>

rtm_validateRequirement(reqId) ==
  /\ phase = "ready"
  /\ calls < MaxCalls
  /\ calls' = calls + 1
  /\ LET exists == reqId \in DOMAIN requirements
     IN /\ coverage' = seedRequirementCoverage(coverage, reqId)
        /\ lastCall' = Call("rtm:validateRequirement", reqId, "none", Bool(exists))
  /\ UNCHANGED <<phase, requirements, userStories, testCases, suites, clock, reportRun>>

\* the coverage entry is reset on every successful validation
rtm_validateStory_Resets(storyId) ==
  /\ phase = "ready"
  /\ calls < MaxCalls
  /\ calls' = calls + 1
  /\ LET exists == storyId \in DOMAIN userStories
     IN /\ coverage' = IF exists
                       THEN [coverage EXCEPT !.stories = MapSet(@, storyId, <<>>)]
                       ELSE coverage
        /\ lastCall' = Call("rtm:validateStory", storyId, "none", Bool(exists))
  /\ UNCHANGED <<phase, requirements, userStories, testCases, suites, clock, reportRun>>

rtm_validateStory(storyId) ==
  /\ phase = "ready"
  /\ calls < MaxCalls
  /\ calls' = calls + 1
  /\ LET exists == storyId \in DOMAIN userStories
     IN /\ coverage' = seedStoryCoverage(coverage, storyId)
        /\ lastCall' = Call("rtm:validateStory", storyId, "none", Bool(exists))
  /\ UNCHANGED <<phase, requirements, userStories, testCases, suites, clock, reportRun>>

\* the missing type is not filled in
enhancedTestCase_NoTypeDefault(testCase) ==
  LET p == IF Has(testCase, "priority") THEN testCase
           ELSE MapSet(testCase, "priority", "p1-must-run")
  IN MapSet(p, "automated", TRUE)

enhancedTestCase(testCase) ==
  LET t == IF Has(testCase, "type") THEN testCase ELSE MapSet(testCase, "type", "e2e")
      p == IF Has(t, "priority") THEN t ELSE MapSet(t, "priority", "p1-must-run")
  IN MapSet(p, "automated", TRUE)

rtm_addTestCase(testCase) ==
  /\ phase = "ready"
  /\ calls < MaxCalls
  /\ calls' = calls + 1
  /\ LET r == CypressRTM_addTestCase(enhancedTestCase(testCase))
     IN /\ testCases' = r.testCases
        /\ coverage' = r.coverage
        /\ lastCall' = Call("rtm:addTestCase", testCase, r.threw,
                            IF r.threw = "none" THEN "null" ELSE "undefined")
  /\ UNCHANGED <<phase, requirements, userStories, suites, clock, reportRun>>

\* a suite naming a requirement that is not stored is refused
rtm_addSuite_ChecksRequirements(suite) ==
  /\ phase = "ready"
  /\ calls < MaxCalls
  /\ calls' = calls + 1
  /\ IF ~Has(suite, "requirements")
        \/ Range(suite.requirements.items) \subseteq DOMAIN requirements
     THEN /\ \E now \in clock..MaxClock :
               /\ clock' = now
               /\ suites' = MapSet(suites, suite.id, MapSet(suite, "timestamp", now))
          /\ lastCall' = Call("rtm:addSuite", suite, "none", "null")
     ELSE /\ UNCHANGED <<clock, suites>>
          /\ lastCall' = Call("rtm:addSuite", suite, "INVALID_SUITE", "undefined")
  /\ UNCHANGED <<phase, requirements, userStories, testCases, coverage, reportRun>>

rtm_addSuite(suite) ==
  /\ phase = "ready"
  /\ calls < MaxCalls
  /\ calls' = calls + 1
  /\ \E now \in clock..MaxClock :
       /\ clock' = now
       /\ suites' = MapSet(suites, suite.id, MapSet(suite, "timestamp", now))
  /\ lastCall' = Call("rtm:addSuite", suite, "none", "null")
  /\ UNCHANGED <<phase, requirements, userStories, testCases, coverage, reportRun>>

\* test[key] || []  spread: the items of a list, the characters of a string
Items(obj, key) == IF Has(obj, key) THEN obj[key].items ELSE <<>>

\* the suite's values are put before the test case's own
mergedList_SuiteFirst(test, suite, key) == List(Dedup(Items(suite, key) \o Items(test, key)))

\* [...new Set([...(test[key] || []), ...(suite[key] || [])])]
mergedList(test, suite, key) == List(Dedup(Items(test, key) \o Items(suite, key)))

\* the record is rebuilt from its id and the three lists: no spread of test
updatedTest_WithoutSpread(test, suite) ==
  [f \in {"id", "requirements", "userStories", "tags"} |->
     IF f = "id" THEN test.id ELSE mergedList(test, suite, f)]

updatedTest(test, suite) ==
  MapSet(MapSet(MapSet(test,
    "requirements", mergedList(test, suite, "requirements")),
    "userStories", mergedList(test, suite, "userStories")),
    "tags", mergedList(test, suite, "tags"))

\* a suite that is not stored is taken to be an empty one: no throw
rtm_applySuiteToTests_MissingSuiteIsEmpty(suiteId) ==
  /\ phase = "ready"
  /\ calls < MaxCalls
  /\ calls' = calls + 1
  /\ LET suite == IF suiteId \in DOMAIN suites THEN suites[suiteId] ELSE EmptyMap
     IN /\ testCases' =
             [testId \in DOMAIN testCases |->
                IF Has(testCases[testId], "suiteId") /\ testCases[testId].suiteId = suiteId
                THEN updatedTest(testCases[testId], suite)
                ELSE testCases[testId]]
        /\ lastCall' = Call("rtm:applySuiteToTests", suiteId, "none", "null")
  /\ UNCHANGED <<phase, requirements, userStories, suites, coverage, clock, reportRun>>

rtm_applySuiteToTests(suiteId) ==
  /\ phase = "ready"
  /\ calls < MaxCalls
  /\ calls' = calls + 1
  /\ IF suiteId \notin DOMAIN suites
     THEN /\ testCases' = testCases
          /\ lastCall' = Call("rtm:applySuiteToTests", suiteId, "SUITE_NOT_FOUND", "undefined")
     ELSE /\ testCases' =
               [testId \in DOMAIN testCases |->
                  IF Has(testCases[testId], "suiteId") /\ testCases[testId].suiteId = suiteId
                  THEN updatedTest(testCases[testId], suites[suiteId])
                  ELSE testCases[testId]]
          /\ lastCall' = Call("rtm:applySuiteToTests", suiteId, "none", "null")
  /\ UNCHANGED <<phase, requirements, userStories, suites, coverage, clock, reportRun>>

(***************************************************************************)
(* CypressRTM: the queries (src/core.js).  A query reads the stores and    *)
(* returns a value.                                                        *)
(***************************************************************************)
\* Map.prototype.forEach / keys() visit the keys in insertion order, which
\* for the two loaded stores is the order of the entries of the file.
KeysInOrder(map, file) ==
  SelectSeq([i \in 1..Len(file.entries) |-> file.entries[i][1]],
            LAMBDA k : k \in DOMAIN map)

RequirementKeys == KeysInOrder(requirements, GoodRequirementsFile)

StoryKeys == KeysInOrder(userStories, GoodUserStoriesFile)

\* the lookup creates the coverage entry it does not find
Query_CreatesMissingEntries(op, ret) ==
  /\ phase = "ready"
  /\ calls < MaxCalls
  /\ calls' = calls + 1
  /\ lastCall' = Call(op, "", "none", ret)
  /\ coverage' = [coverage EXCEPT !.requirements =
                    [r \in (DOMAIN @) \cup (DOMAIN requirements) |->
                       IF r \in DOMAIN @ THEN @[r] ELSE <<>>]]
  /\ UNCHANGED <<phase, requirements, userStories, testCases, suites, clock, reportRun>>

Query(op, ret) ==
  /\ phase = "ready"
  /\ calls < MaxCalls
  /\ calls' = calls + 1
  /\ lastCall' = Call(op, "", "none", ret)
  /\ UNCHANGED <<phase, requirements, userStories, testCases, suites, coverage, clock, reportRun>>

Gap(type, reqId) ==
  [type |-> type, requirementId |-> reqId, title |-> requirements[reqId].title]

\* any covering test case counts, whatever its type
hasSecurityTest_AnyTest(reqId) ==
  LET tests == IF reqId \in DOMAIN coverage.requirements
               THEN coverage.requirements[reqId] ELSE <<>>
  IN \E i \in 1..Len(tests) : tests[i] \in DOMAIN testCases

hasSecurityTest(reqId) ==
  LET tests == IF reqId \in DOMAIN coverage.requirements
               THEN coverage.requirements[reqId] ELSE <<>>
  IN \E i \in 1..Len(tests) :
       /\ tests[i] \in DOMAIN testCases
       /\ Has(testCases[tests[i]], "type")
       /\ testCases[tests[i]].type = "security"

\* a requirement counts as covered when a stored test case lists it now
getCriticalGaps_ScansStore ==
  LET critical == SelectSeq(RequirementKeys, LAMBDA r :
                    /\ requirements[r].priority = "p0-critical"
                    /\ \A t \in DOMAIN testCases :
                         r \notin Range(Items(testCases[t], "requirements")))
      security == SelectSeq(RequirementKeys, LAMBDA r :
                    requirements[r].type = "security" /\ ~hasSecurityTest(r))
  IN [i \in 1..Len(critical) |-> Gap("uncovered_critical_requirement", critical[i])]
       \o [i \in 1..Len(security) |->
             Gap("security_requirement_no_security_test", security[i])]

getCriticalGaps ==
  LET critical == SelectSeq(RequirementKeys, LAMBDA r :
                    /\ requirements[r].priority = "p0-critical"
                    /\ r \notin DOMAIN coverage.requirements)
      security == SelectSeq(RequirementKeys, LAMBDA r :
                    requirements[r].type = "security" /\ ~hasSecurityTest(r))
  IN [i \in 1..Len(critical) |-> Gap("uncovered_critical_requirement", critical[i])]
       \o [i \in 1..Len(security) |->
             Gap("security_requirement_no_security_test", security[i])]

call_getCriticalGaps == Query("getCriticalGaps", getCriticalGaps)

Size(map) == Cardinality(DOMAIN map)

\* JavaScript numbers that come out of a division of two counts: NaN (0/0),
\* Infinity (n/0) or the exact quotient in lowest terms.  The rounding of the
\* floating-point quotient is not represented.
RECURSIVE GCD(_, _)
GCD(a, b) == IF b = 0 THEN a ELSE GCD(b, a % b)

Finite(n, d) == [kind |-> "finite", num |-> n \div GCD(n, d), den |-> d \div GCD(n, d)]

NaN == [kind |-> "NaN", num |-> 0, den |-> 0]

Infinity == [kind |-> "Infinity", num |-> 1, den |-> 0]

Zero == Finite(0, 1)

\* n / d
Divide(n, d) == IF d # 0 THEN Finite(n, d) ELSE IF n = 0 THEN NaN ELSE Infinity

\* x * 100
Times100(x) == IF x.kind = "finite" THEN Finite(x.num * 100, x.den) ELSE x

\* size ? (covered / size) * 100 : 0
percentageOrZero(covered, size) ==
  IF size # 0 THEN Times100(Divide(covered, size)) ELSE Zero

getRequirementTypeCoverage ==
  [type \in DOMAIN coverage.types.requirements |->
     LET totalOfType == Cardinality({r \in DOMAIN requirements : requirements[r].type = type})
         tests == coverage.types.requirements[type]
     IN [total |-> totalOfType, covered |-> Len(tests),
         percentage |-> percentageOrZero(Len(tests), totalOfType)]]

\* this.testCases.get(testId)?.requirements || []
requirementsOfTest(testId) ==
  IF testId \in DOMAIN testCases THEN Range(Items(testCases[testId], "requirements")) ELSE {}

getTestTypeCoverage ==
  [type \in DOMAIN coverage.types.tests |->
     LET tests == coverage.types.tests[type]
     IN [total |-> Len(tests),
         requirements |-> Cardinality(UNION {requirementsOfTest(t) : t \in Range(tests)})]]

getCoverageStats ==
  [requirements |->
     [total |-> Size(requirements), covered |-> Size(coverage.requirements),
      percentage |-> percentageOrZero(Size(coverage.requirements), Size(requirements))],
   stories |->
     [total |-> Size(userStories), covered |-> Size(coverage.stories),
      percentage |-> percentageOrZero(Size(coverage.stories), Size(userStories))],
   byType |-> [requirements |-> getRequirementTypeCoverage, tests |-> getTestTypeCoverage]]

call_getCoverageStats == Query("getCoverageStats", getCoverageStats)

getUncoveredItems ==
  [requirements |-> SelectSeq(RequirementKeys, LAMBDA r : r \notin DOMAIN coverage.requirements),
   stories |-> SelectSeq(StoryKeys, LAMBDA st : st \notin DOMAIN coverage.stories)]

call_getUncoveredItems == Query("getUncoveredItems", getUncoveredItems)

(***************************************************************************)
(* RTMTasks.getCoverage (src/tasks.js): the division has no guard.         *)
(***************************************************************************)
getCoverage ==
  [requirements |->
     [total |-> Size(requirements), covered |-> Size(coverage.requirements),
      percentage |-> Times100(Divide(Size(coverage.requirements), Size(requirements)))],
   stories |->
     [total |-> Size(userStories), covered |-> Size(coverage.stories),
      percentage |-> Times100(Divide(Size(coverage.stories), Size(userStories)))]]

rtm_getCoverage == Query("rtm:getCoverage", getCoverage)

(***************************************************************************)
(* RTMReportGenerator: the aggregations of the report (src/reports.js,     *)
(* the coverage variant of the class, lines 5-266).                        *)
(***************************************************************************)
calculatePercentage(numerator, denominator) ==
  IF denominator = 0 THEN Zero ELSE Times100(Divide(numerator, denominator))

generateSummary ==
  [totalRequirements |-> Size(requirements),
   totalUserStories |-> Size(userStories),
   totalTestCases |-> Size(testCases),
   coverage |->
     [requirements |->
        [covered |-> Size(coverage.requirements),
         percentage |-> calculatePercentage(Size(coverage.requirements), Size(requirements))],
      userStories |->
        [covered |-> Size(coverage.stories),
         percentage |-> calculatePercentage(Size(coverage.stories), Size(userStories))]]]

calculateRequirementTypeCoverage ==
  [type \in DOMAIN coverage.types.requirements |->
     LET totalOfType == Cardinality({r \in DOMAIN requirements : requirements[r].type = type})
         tests == coverage.types.requirements[type]
     IN [total |-> totalOfType, covered |-> Len(tests),
         percentage |-> calculatePercentage(Len(tests), totalOfType)]]

calculateTestTypeCoverage ==
  [type \in DOMAIN coverage.types.tests |->
     LET tests == coverage.types.tests[type]
     IN [total |-> Len(tests),
         requirements |-> Cardinality(UNION {requirementsOfTest(t) : t \in Range(tests)})]]

calculatePriorityCoverage ==
  [priority \in {requirements[r].priority : r \in DOMAIN requirements} |->
     LET total == Cardinality({r \in DOMAIN requirements : requirements[r].priority = priority})
         covered == Cardinality({r \in DOMAIN requirements :
                                   /\ requirements[r].priority = priority
                                   /\ r \in DOMAIN coverage.requirements})
     IN [total |-> total, covered |-> covered,
         percentage |-> calculatePercentage(covered, total)]]

\* the requirements of a story are collected from the test cases covering it
generateTraceabilityMatrix_Derived ==
  [requirementsToTests |-> [r \in DOMAIN coverage.requirements |-> coverage.requirements[r]],
   storiesToRequirements |->
     [st \in DOMAIN userStories |->
        LET tests == IF st \in DOMAIN coverage.stories THEN coverage.stories[st] ELSE <<>>
            RECURSIVE collect(_)
            collect(i) == IF i > Len(tests) THEN <<>>
                          ELSE Items(testCases[tests[i]], "requirements") \o collect(i + 1)
        IN Dedup(collect(1))],
   storiesToTests |->
     [st \in DOMAIN userStories |->
        IF st \in DOMAIN coverage.stories THEN coverage.stories[st] ELSE <<>>]]

generateTraceabilityMatrix ==
  [requirementsToTests |-> [r \in DOMAIN coverage.requirements |-> coverage.requirements[r]],
   storiesToRequirements |->
     [st \in DOMAIN userStories |->
        IF Has(userStories[st], "linkedRequirements")
        THEN userStories[st].linkedRequirements ELSE <<>>],
   storiesToTests |->
     [st \in DOMAIN userStories |->
        IF st \in DOMAIN coverage.stories THEN coverage.stories[st] ELSE <<>>]]

getRequirementsDetails ==
  [i \in 1..Len(RequirementKeys) |->
     LET reqId == RequirementKeys[i]
     IN MapSet(requirements[reqId], "coverage",
               [testCases |-> IF reqId \in DOMAIN coverage.requirements
                              THEN coverage.requirements[reqId] ELSE <<>>,
                isCovered |-> reqId \in DOMAIN coverage.requirements])]

getUserStoriesDetails ==
  [i \in 1..Len(StoryKeys) |->
     LET storyId == StoryKeys[i]
     IN MapSet(userStories[storyId], "coverage",
               [testCases |-> IF storyId \in DOMAIN coverage.stories
                              THEN coverage.stories[storyId] ELSE <<>>,
                requirements |-> IF Has(userStories[storyId], "linkedRequirements")
                                 THEN userStories[storyId].linkedRequirements ELSE <<>>,
                isCovered |-> storyId \in DOMAIN coverage.stories])]

\* The details of the test cases, by test id; the position of a test case in
\* the returned array (the insertion order of this.testCases) is not
\* represented.
getTestCasesDetails ==
  [testId \in DOMAIN testCases |->
     MapSet(testCases[testId], "coverage",
            [requirements |-> IF Has(testCases[testId], "requirements")
                              THEN testCases[testId].requirements ELSE List(<<>>),
             userStories |-> IF Has(testCases[testId], "userStories")
                             THEN testCases[testId].userStories ELSE List(<<>>)])]

\* what collectReportData returns
reportData ==
  [timestamp |-> clock,
   summary |-> generateSummary,
   coverage |-> [byType |-> [requirements |-> calculateRequirementTypeCoverage,
                             tests |-> calculateTestTypeCoverage],
                 byPriority |-> calculatePriorityCoverage],
   traceabilityMatrix |-> generateTraceabilityMatrix,
   details |-> [requirements |-> getRequirementsDetails,
                userStories |-> getUserStoriesDetails,
                testCases |-> getTestCasesDetails]]

collectReportData ==
  /\ phase = "ready"
  /\ calls < MaxCalls
  /\ calls' = calls + 1
  /\ lastCall' = Call("collectReportData", "", "none", reportData)
  /\ UNCHANGED <<phase, requirements, userStories, testCases, suites, coverage, clock, reportRun>>

(***************************************************************************)
(* RTMReportGenerator: the execution variant of the class (src/reports.js, *)
(* lines 273-381), which finds the uncovered items by scanning the stored  *)
(* test cases.                                                             *)
(***************************************************************************)
\* The characters of the ids that String.prototype.includes is asked for.
Chars(id) ==
  CASE id = "US-001" -> <<"U", "S", "-", "0", "0", "1">>
    [] id = "US-002" -> <<"U", "S", "-", "0", "0", "2">>
    [] id = "REQ-001" -> <<"R", "E", "Q", "-", "0", "0", "1">>
    [] id = "REQ-002" -> <<"R", "E", "Q", "-", "0", "0", "2">>

\* tc[key]?.includes(id): membership in a list, substring of a string
includes(tc, key, id) ==
  /\ Has(tc, key)
  /\ IF tc[key].isArray
     THEN id \in Range(tc[key].items)
     ELSE \E from \in 1..Len(tc[key].items) :
            /\ from + Len(Chars(id)) - 1 <= Len(tc[key].items)
            /\ SubSeq(tc[key].items, from, from + Len(Chars(id)) - 1) = Chars(id)

countStatus(status) ==
  Cardinality({t \in DOMAIN testCases :
                 Has(testCases[t], "status") /\ testCases[t].status = status})

generateSummary_execution ==
  [totalRequirements |-> Size(requirements),
   totalUserStories |-> Size(userStories),
   totalTestCases |-> Size(testCases),
   execution |->
     [passed |-> countStatus("passed"),
      failed |-> countStatus("failed"),
      skipped |-> countStatus("skipped"),
      percentagePassed |-> calculatePercentage(countStatus("passed"), Size(testCases))]]

getUncoveredRequirements ==
  SelectSeq(RequirementKeys, LAMBDA reqId :
    ~\E t \in DOMAIN testCases : includes(testCases[t], "requirements", reqId))

getUncoveredUserStories ==
  SelectSeq(StoryKeys, LAMBDA storyId :
    ~\E t \in DOMAIN testCases : includes(testCases[t], "userStories", storyId))

collectReportData_execution ==
  /\ phase = "ready"
  /\ calls < MaxCalls
  /\ calls' = calls + 1
  /\ lastCall' = Call("collectReportData (execution)", "", "none",
            [timestamp |-> clock,
             summary |-> generateSummary_execution,
             execution |-> [testCases |-> getTestCasesDetails],
             uncovered |-> [requirements |-> getUncoveredRequirements,
                            userStories |-> getUncoveredUserStories]])
  /\ UNCHANGED <<phase, requirements, userStories, testCases, suites, coverage, clock, reportRun>>

(***************************************************************************)
(* The host calls the handlers in any order.                               *)
(***************************************************************************)
Next ==
  \/ \E fixture \in Fixtures : init(fixture)
  \/ \E testCase \in Candidates : addTestCase(testCase)
  \/ \E reqId \in RequirementIds : rtm_validateRequirement(reqId)
  \/ \E storyId \in StoryIds : rtm_validateStory(storyId)
  \/ \E testCase \in Candidates : rtm_addTestCase(testCase)
  \/ \E suite \in SuiteInputs : rtm_addSuite(suite)
  \/ \E suiteId \in SuiteIds : rtm_applySuiteToTests(suiteId)
  \/ call_getCriticalGaps
  \/ call_getCoverageStats
  \/ call_getUncoveredItems
  \/ rtm_getCoverage
  \/ collectReportData
  \/ collectReportData_execution

Spec == Init /\ [][Next]_vars

(***************************************************************************)
(* The two validators of CypressRTM called on their own (src/core.js), as  *)
(* the unit tests do: before or after init(), on candidate records.  Both  *)
(* catch whatever their body raises and return false.                      *)
(***************************************************************************)
\* Requirement records: the two of the fixture, and REQ001 with a required
\* field removed or with a value of the test-case enums put in.
RequirementCandidates ==
  { REQ001, REQ002,
    Without(REQ001, "id"), Without(REQ001, "title"),
    Without(REQ001, "type"), Without(REQ001, "priority"),
    MapSet(REQ001, "type", "e2e"),
    MapSet(REQ001, "priority", "p1-must-run") }

\* validateTestCase does not read the value of id.
ValidatorCandidates == MalformedCandidates \cup LinkedCandidates(TestIdPool[1])

\* the enum checks are left out
call_validateRequirement_NoEnumCheck(requirement) ==
  /\ lastCall' = Call("validateRequirement", requirement, "none",
                      Bool(/\ Has(requirement, "id") /\ Has(requirement, "title")
                           /\ Has(requirement, "type") /\ Has(requirement, "priority")))
  /\ UNCHANGED <<phase, requirements, userStories, testCases, suites, coverage, clock, calls, reportRun>>

call_validateRequirement(requirement) ==
  /\ lastCall' = Call("validateRequirement", requirement, "none",
                      Bool(validateRequirement(requirement)))
  /\ UNCHANGED <<phase, requirements, userStories, testCases, suites, coverage, clock, calls, reportRun>>

\* some() instead of every(): one stored requirement id is enough
call_validateTestCase_SomeKnown(testCase) ==
  /\ lastCall' = Call("validateTestCase", testCase, "none",
                      Bool(/\ validateTestCase_NoReferenceCheck(testCase)
                           /\ Has(testCase, "requirements") =>
                                \E i \in 1..Len(testCase.requirements.items) :
                                  testCase.requirements.items[i] \in DOMAIN requirements))
  /\ UNCHANGED <<phase, requirements, userStories, testCases, suites, coverage, clock, calls, reportRun>>

call_validateTestCase(testCase) ==
  /\ lastCall' = Call("validateTestCase", testCase, "none", Bool(validateTestCase(testCase)))
  /\ UNCHANGED <<phase, requirements, userStories, testCases, suites, coverage, clock, calls, reportRun>>

NextValidators ==
  \/ \E fixture \in Fixtures : init(fixture)
  \/ \E requirement \in RequirementCandidates : call_validateRequirement(requirement)
  \/ \E testCase \in ValidatorCandidates : call_validateTestCase(testCase)

ValidatorSpec == Init /\ [][NextValidators]_vars

(***************************************************************************)
(* The browser-side commands (src/commands.js).  A command queues a        *)
(* validation task and, in the callback of that task, the registration     *)
(* task.  The command queue of the host is sequential: while a callback is *)
(* pending no other command starts.  In a run driven through the commands  *)
(* the last call tells whether a callback is pending: a validation task    *)
(* is always followed by its callback.                                     *)
(***************************************************************************)
\* Cypress.currentTest.title; the id of the test case is `TC-${title}`
TitlePool == <<"001", "002", "003", "004">>

Titles == 1..MaxTests

\* the options argument of a command: none, a type, a priority, a type
\* that is not in TEST_TYPES
CommandOptions ==
  { EmptyMap, [type |-> "security"], [priority |-> "p2-high-value"],
    [type |-> "functional"] }

\* the test case names the suite it was declared in
commandTestCase_WithSuiteId(t, options, linkField, linkedId) ==
  MapSet([id |-> TestIdPool[t],
          title |-> TitlePool[t],
          type |-> IF Has(options, "type") THEN options.type ELSE "e2e",
          priority |-> IF Has(options, "priority") THEN options.priority
                       ELSE "p1-must-run",
          automated |-> TRUE,
          suiteId |-> "TS-Security Tests",
          timestamp |-> clock],
         linkField, List(<<linkedId>>))

commandTestCase(t, options, linkField, linkedId) ==
  MapSet([id |-> TestIdPool[t],
          title |-> TitlePool[t],
          type |-> IF Has(options, "type") THEN options.type ELSE "e2e",
          priority |-> IF Has(options, "priority") THEN options.priority
                       ELSE "p1-must-run",
          automated |-> TRUE,
          timestamp |-> clock],
         linkField, List(<<linkedId>>))

CallbackPending == lastCall.op \in {"rtm:validateRequirement", "rtm:validateStory"}

requirement(reqId) ==
  /\ ~CallbackPending
  /\ rtm_validateRequirement(reqId)

\* the callback registers the test case without looking at isValid
requirement_then_Unchecked(t, options) ==
  /\ lastCall.op = "rtm:validateRequirement"
  /\ rtm_addTestCase(commandTestCase(t, options, "requirements", lastCall.arg))

requirement_then(t, options) ==
  /\ lastCall.op = "rtm:validateRequirement"
  /\ IF lastCall.ret # "true"
     THEN /\ lastCall' = Call("requirement", lastCall.arg, "Invalid requirement ID", "undefined")
          /\ UNCHANGED <<phase, requirements, userStories, testCases, suites,
                         coverage, clock, calls, reportRun>>
     ELSE rtm_addTestCase(commandTestCase(t, options, "requirements", lastCall.arg))

userStory(storyId) ==
  /\ ~CallbackPending
  /\ rtm_validateStory(storyId)

userStory_then(t, options) ==
  /\ lastCall.op = "rtm:validateStory"
  /\ IF lastCall.ret # "true"
     THEN /\ lastCall' = Call("userStory", lastCall.arg, "Invalid user story ID", "undefined")
          /\ UNCHANGED <<phase, requirements, userStories, testCases, suites,
                         coverage, clock, calls, reportRun>>
     ELSE rtm_addTestCase(commandTestCase(t, options, "userStories", lastCall.arg))

NextCommands ==
  \/ \E fixture \in Fixtures : init(fixture)
  \/ \E reqId \in RequirementIds : requirement(reqId)
  \/ \E t \in Titles, options \in CommandOptions : requirement_then(t, options)
  \/ \E storyId \in StoryIds : userStory(storyId)
  \/ \E t \in Titles, options \in CommandOptions : userStory_then(t, options)

CommandSpec == Init /\ [][NextCommands]_vars

(***************************************************************************)
(* The testMetadata and suite commands (src/commands.js).  testMetadata    *)
(* queues one validation task per listed id, each with a callback that     *)
(* throws on false, and then the registration task; the host runs the      *)
(* queue in order and abandons the rest of it when a callback throws.  The *)
(* action is the whole run of that queue.                                  *)
(***************************************************************************)
\* the metadata argument: none; the README example; a list with an unknown
\* requirement id; an unknown story id
MetadataInputs ==
  { EmptyMap,
    [type |-> "security", priority |-> "p1-must-run",
     requirements |-> List(<<"REQ-001">>), userStories |-> List(<<"US-001">>),
     tags |-> List(<<"security">>)],
    [requirements |-> List(<<"REQ-002", "REQ-404">>)],
    [userStories |-> List(<<"US-404">>)] }

\* metadata.field || []
listOrEmpty(metadata, field) ==
  IF Has(metadata, field) THEN metadata[field] ELSE List(<<>>)

metadataTestCase(t, metadata) ==
  LET base == [id |-> TestIdPool[t],
               title |-> TitlePool[t],
               type |-> IF Has(metadata, "type") THEN metadata.type ELSE "e2e",
               priority |-> IF Has(metadata, "priority") THEN metadata.priority
                            ELSE "p1-must-run",
               requirements |-> listOrEmpty(metadata, "requirements"),
               userStories |-> listOrEmpty(metadata, "userStories"),
               automated |-> TRUE,
               tags |-> listOrEmpty(metadata, "tags"),
               dependencies |-> listOrEmpty(metadata, "dependencies"),
               timestamp |-> clock]
  IN IF Has(metadata, "description")
     THEN MapSet(base, "description", metadata.description) ELSE base

\* the validation tasks the command queues, in order
validationTasks(testCase) ==
  [i \in 1..Len(testCase.requirements.items) |->
     [task |-> "rtm:validateRequirement", id |-> testCase.requirements.items[i]]]
  \o [i \in 1..Len(testCase.userStories.items) |->
        [task |-> "rtm:validateStory", id |-> testCase.userStories.items[i]]]

isValid(validation) ==
  IF validation.task = "rtm:validateRequirement"
  THEN validation.id \in DOMAIN requirements
  ELSE validation.id \in DOMAIN userStories

\* the position of the first validation task that returns false, 0 if none
firstInvalid(validations) ==
  IF \A i \in 1..Len(validations) : isValid(validations[i]) THEN 0
  ELSE CHOOSE i \in 1..Len(validations) :
         /\ ~isValid(validations[i])
         /\ \A j \in 1..(i - 1) : isValid(validations[j])

\* the coverage index after the validation tasks i..n have run
RECURSIVE afterValidations(_, _, _, _)
afterValidations(cov, validations, i, n) ==
  IF i > n THEN cov
  ELSE afterValidations(IF validations[i].task = "rtm:validateRequirement"
                        THEN seedRequirementCoverage(cov, validations[i].id)
                        ELSE seedStoryCoverage(cov, validations[i].id),
                        validations, i + 1, n)

testMetadata(t, metadata) ==
  /\ phase = "ready"
  /\ ~CallbackPending
  /\ LET testCase == metadataTestCase(t, metadata)
         validations == validationTasks(testCase)
         k == firstInvalid(validations)
         issued == IF k = 0 THEN Len(validations) + 1 ELSE k
     IN /\ calls + issued <= MaxCalls
        /\ calls' = calls + issued
        /\ IF k # 0
           THEN /\ coverage' = afterValidations(coverage, validations, 1, k)
                /\ testCases' = testCases
                /\ lastCall' = Call("testMetadata", metadata,
                                    IF validations[k].task = "rtm:validateRequirement"
                                    THEN "Invalid requirement ID"
                                    ELSE "Invalid user story ID",
                                    "undefined")
           ELSE LET seeded == afterValidations(coverage, validations, 1, Len(validations))
                    r == addTestCaseOn([testCases |-> testCases, coverage |-> seeded],
                                       enhancedTestCase(testCase))
                IN /\ testCases' = r.testCases
                   /\ coverage' = r.coverage
                   /\ lastCall' = Call("rtm:addTestCase", testCase, r.threw,
                                       IF r.threw = "none" THEN "null" ELSE "undefined")
  /\ UNCHANGED <<phase, requirements, userStories, suites, clock, reportRun>>

\* Cypress.currentTest.suite.title; the id of the suite is `TS-${title}`
SuiteTitles == {"Security Tests"}

\* the metadata argument of the suite command: the README example, none
SuiteMetadataInputs ==
  { [type |-> "security", priority |-> "p1-must-run",
     requirements |-> List(<<"REQ-001">>), tags |-> List(<<"security">>)],
    EmptyMap }

\* type, priority and description are undefined when the metadata has none
suiteRecord(title, metadata) ==
  LET base == [id |-> "TS-Security Tests",
               title |-> title,
               requirements |-> listOrEmpty(metadata, "requirements"),
               userStories |-> listOrEmpty(metadata, "userStories"),
               tags |-> listOrEmpty(metadata, "tags")]
      copy(record, field) ==
        IF Has(metadata, field) THEN MapSet(record, field, metadata[field]) ELSE record
  IN copy(copy(copy(base, "type"), "priority"), "description")

suiteCommand(title, metadata) ==
  /\ ~CallbackPending
  /\ rtm_addSuite(suiteRecord(title, metadata))

NextCommandRun ==
  \/ NextCommands
  \/ \E t \in Titles, metadata \in MetadataInputs : testMetadata(t, metadata)
  \/ \E title \in SuiteTitles, metadata \in SuiteMetadataInputs : suiteCommand(title, metadata)

CommandRunSpec == Init /\ [][NextCommandRun]_vars

(***************************************************************************)
(* Report generation (src/core.js, generateReports; src/reports.js,        *)
(* generateReports of both variants of the class).  The host runs it from  *)
(* the after:run hook, once the tests have registered their test cases.    *)
(* fs.writeFile either writes the file or rejects; ret records the         *)
(* writeFile calls the call made, in order, with their results.            *)
(***************************************************************************)
WriteResults == {"written", "EACCES"}

WriteFile(file, result) == [file |-> file, result |-> result]

Rejected(writes) == \E i \in 1..Len(writes) : writes[i].result # "written"

\* the catch block logs the failure and resolves
CypressRTM_generateReports_Swallows(op, writes) ==
  /\ phase = "ready"
  /\ calls < MaxCalls
  /\ calls' = calls + 1
  /\ lastCall' = Call(op, "", "none", [writeFile |-> writes])
  /\ UNCHANGED <<phase, requirements, userStories, testCases, suites, coverage, clock, reportRun>>

CypressRTM_generateReports(op, writes) ==
  /\ phase = "ready"
  /\ calls < MaxCalls
  /\ calls' = calls + 1
  /\ lastCall' = Call(op, "",
                      IF Rejected(writes) THEN "REPORT_GENERATION_ERROR" ELSE "none",
                      [writeFile |-> writes])
  /\ UNCHANGED <<phase, requirements, userStories, testCases, suites, coverage, clock, reportRun>>

\* Promise.all: both writes are started before either is awaited
generateReports(jsonResult, htmlResult) ==
  CypressRTM_generateReports("generateReports",
    <<WriteFile("rtm-report.json", jsonResult), WriteFile("rtm-report.html", htmlResult)>>)

generateReports_execution(jsonResult) ==
  CypressRTM_generateReports("generateReports (execution)",
    <<WriteFile("data22.json", jsonResult)>>)

NextReports ==
  \/ \E fixture \in Fixtures : init(fixture)
  \/ \E testCase \in Candidates : rtm_addTestCase(testCase)
  \/ \E jsonResult \in WriteResults, htmlResult \in WriteResults :
       generateReports(jsonResult, htmlResult)
  \/ \E jsonResult \in WriteResults : generateReports_execution(jsonResult)

ReportSpec == Init /\ [][NextReports]_vars

(***************************************************************************)
(* Registration: the host calls the registration and the existence         *)
(* validations as each test completes, one handler at a time (all the      *)
(* mutations are synchronous).                                             *)
(***************************************************************************)
NextRegistration ==
  \/ \E fixture \in Fixtures : init(fixture)
  \/ \E id \in TestIds : \E testCase \in LinkedCandidates(id) : addTestCase(testCase)
  \/ \E reqId \in RequirementIds : rtm_validateRequirement(reqId)
  \/ \E storyId \in StoryIds : rtm_validateStory(storyId)

RegistrationSpec == Init /\ [][NextRegistration]_vars

(***************************************************************************)
(* Report generation as the event loop runs it (src/reports.js, the        *)
(* coverage variant).  generateReports runs synchronously up to its        *)
(* await: it collects the data, and generateJSONReport and                 *)
(* generateHTMLReport each build their string and hand it to fs.writeFile  *)
(* before either write has completed.  The writes complete later, one at a *)
(* time, and task handlers can run in between.                             *)
(*   reportRun.data    : the reportData of the calls in flight or done     *)
(*   reportRun.pending : the writeFile calls that have not completed       *)
(*   reportRun.files   : the files of the output directory                 *)
(***************************************************************************)
\* JSON.stringify of a number: NaN and Infinity become null
stringifyNumber(x) == IF x.kind = "finite" THEN x ELSE "null"

stringifyEntry(entry) == [entry EXCEPT !.percentage = stringifyNumber(@)]

\* JSON.stringify of the sections of the report: the strings, booleans,
\* arrays and objects keep their structure, the percentages are numbers
stringifySummary(summary) ==
  [summary EXCEPT !.coverage.requirements.percentage = stringifyNumber(@),
                  !.coverage.userStories.percentage = stringifyNumber(@)]

stringifyCoverage(cov) ==
  [byType |-> [requirements |-> [t \in DOMAIN cov.byType.requirements |->
                                   stringifyEntry(cov.byType.requirements[t])],
               tests |-> cov.byType.tests],
   byPriority |-> [p \in DOMAIN cov.byPriority |-> stringifyEntry(cov.byPriority[p])]]

\* JSON.stringify(data, null, 2)
jsonContent(data) ==
  [timestamp |-> data.timestamp,
   summary |-> stringifySummary(data.summary),
   coverage |-> stringifyCoverage(data.coverage),
   traceabilityMatrix |-> data.traceabilityMatrix,
   details |-> data.details]

\* generateHTMLContent(data): the title carries the date, the body the four
\* stringified sections
generateHTMLContent(data) ==
  [title |-> clock,
   summary |-> stringifySummary(data.summary),
   coverage |-> stringifyCoverage(data.coverage),
   traceabilityMatrix |-> data.traceabilityMatrix,
   details |-> data.details]

RTMReportGenerator_generateReports ==
  /\ phase = "ready"
  /\ reportRun.data = <<>>
  /\ calls < MaxCalls
  /\ calls' = calls + 1
  /\ LET data == reportData
     IN reportRun' = [data |-> <<data>>,
                      pending |-> {[file |-> "rtm-report.json", content |-> jsonContent(data)],
                                   [file |-> "rtm-report.html",
                                    content |-> generateHTMLContent(data)]},
                      files |-> reportRun.files]
  /\ lastCall' = Call("generateReports", "", "none", "pending")
  /\ UNCHANGED <<phase, requirements, userStories, testCases, suites, coverage, clock>>

\* the string is built from the stores when the write is carried out
writeFile_StringifiesLate(write) ==
  /\ write \in reportRun.pending
  /\ reportRun' = [reportRun EXCEPT
                     !.pending = @ \ {write},
                     !.files = MapSet(@, write.file,
                                      IF write.file = "rtm-report.json"
                                      THEN jsonContent(reportData)
                                      ELSE generateHTMLContent(reportData))]
  /\ UNCHANGED <<phase, requirements, userStories, testCases, suites, coverage, clock,
                 calls, lastCall>>

\* fs.writeFile(path, string) completes
writeFile(write) ==
  /\ write \in reportRun.pending
  /\ reportRun' = [reportRun EXCEPT !.pending = @ \ {write},
                                    !.files = MapSet(@, write.file, write.content)]
  /\ UNCHANGED <<phase, requirements, userStories, testCases, suites, coverage, clock,
                 calls, lastCall>>

NextReportRun ==
  \/ \E fixture \in Fixtures : init(fixture)
  \/ \E id \in TestIds : \E testCase \in LinkedCandidates(id) : rtm_addTestCase(testCase)
  \/ RTMReportGenerator_generateReports
  \/ \E write \in reportRun.pending : writeFile(write)

ReportRunSpec == Init /\ [][NextReportRun]_vars

(***************************************************************************)
(* Vocabulary of the properties.                                           *)
(***************************************************************************)
\* The step is a call of CypressRTM.addTestCase, directly or through the task.
AddStep == calls' = calls + 1 /\ lastCall'.op \in {"addTestCase", "rtm:addTestCase"}

\* The record that reaches CypressRTM.addTestCase in the call described by c.
Submitted(c) == IF c.op = "rtm:addTestCase" THEN enhancedTestCase(c.arg) ELSE c.arg

RequirementIdsOf(tc) == Range(Items(tc, "requirements"))

StoryIdsOf(tc) == Range(Items(tc, "userStories"))

\* The ways a candidate can fail validation, as the contract lists them.
MissingRequiredField(tc) == \E f \in {"id", "title", "type", "priority"} : ~Has(tc, f)

OutOfEnum(tc) ==
  \/ Has(tc, "type") /\ tc.type \notin TEST_TYPES
  \/ Has(tc, "priority") /\ tc.priority \notin TEST_PRIORITIES

BadRequirementsField(tc) ==
  /\ Has(tc, "requirements")
  /\ \/ ~tc.requirements.isArray
     \/ \E r \in RequirementIdsOf(tc) : r \notin DOMAIN requirements

FailsValidation(tc) == MissingRequiredField(tc) \/ OutOfEnum(tc) \/ BadRequirementsField(tc)

(***************************************************************************)
(* C1: when CypressRTM.addTestCase is called with a candidate that fails   *)
(* validation (a required field missing, type or priority out of its enum, *)
(* requirements not a list, or a requirement id that is not stored), it    *)
(* throws INVALID_TEST_CASE and the test-case store, the suite store and   *)
(* the four coverage mappings are as they were before the call.            *)
(***************************************************************************)
C1_InvalidCandidateRejected ==
  [][ (AddStep /\ FailsValidation(Submitted(lastCall')))
        => /\ lastCall'.threw = "INVALID_TEST_CASE"
           /\ UNCHANGED <<testCases, suites, coverage>> ]_vars

\* A candidate naming an unknown requirement was rejected while the stores
\* already held a test case and its coverage.
C1_Witness ==
  /\ lastCall.op = "addTestCase"
  /\ lastCall.threw = "INVALID_TEST_CASE"
  /\ "REQ-404" \in RequirementIdsOf(lastCall.arg)
  /\ DOMAIN testCases # {}
  /\ DOMAIN coverage.requirements # {}

(***************************************************************************)
(* C2: a test case is accepted into the test-case store only if every      *)
(* requirement id and every user-story id it references exists in the      *)
(* requirement store / user-story store at the moment of the call.         *)
(***************************************************************************)
C2_AcceptedOnlyIfAllReferencesExist ==
  [][ (AddStep /\ lastCall'.threw = "none")
        => /\ RequirementIdsOf(Submitted(lastCall')) \subseteq DOMAIN requirements
           /\ StoryIdsOf(Submitted(lastCall')) \subseteq DOMAIN userStories ]_vars

(***************************************************************************)
(* C3: in every reachable state the coverage index is derivable from the   *)
(* entity store: coverage.requirements[r] is exactly the set of stored     *)
(* test-case ids whose requirements list contains r, likewise              *)
(* coverage.stories[s] for user stories, and the two type mappings for the *)
(* types of the referenced requirements and of the test cases.             *)
(***************************************************************************)
Members(map, key) == IF key \in DOMAIN map THEN Range(map[key]) ELSE {}

StoredTestsWith(P(_)) == {t \in DOMAIN testCases : P(testCases[t])}

TypesOfRequirements(tc) ==
  {requirements[r].type : r \in RequirementIdsOf(tc) \cap DOMAIN requirements}

C3_CoverageDerivableFromStore ==
  /\ \A r \in RequirementIds \cup DOMAIN coverage.requirements :
       Members(coverage.requirements, r)
         = StoredTestsWith(LAMBDA tc : r \in RequirementIdsOf(tc))
  /\ \A s \in StoryIds \cup DOMAIN coverage.stories :
       Members(coverage.stories, s)
         = StoredTestsWith(LAMBDA tc : s \in StoryIdsOf(tc))
  /\ \A ty \in REQUIREMENT_TYPES :
       Members(coverage.types.requirements, ty)
         = StoredTestsWith(LAMBDA tc : ty \in TypesOfRequirements(tc))
  /\ \A ty \in TEST_TYPES :
       Members(coverage.types.tests, ty)
         = StoredTestsWith(LAMBDA tc : Has(tc, "type") /\ tc.type = ty)

(***************************************************************************)
(* C4: addTestCase is atomic for every candidate: a call either returns    *)
(* with the record stored and all of its coverage contributions recorded   *)
(* (requirements, requirement types, stories, test type), or throws with   *)
(* the test-case store and the coverage index unchanged.                   *)
(***************************************************************************)
FullyRecorded(tc, store, cov) ==
  /\ tc.id \in DOMAIN store /\ store[tc.id] = tc
  /\ \A r \in RequirementIdsOf(tc) : tc.id \in Members(cov.requirements, r)
  /\ \A ty \in TypesOfRequirements(tc) : tc.id \in Members(cov.types.requirements, ty)
  /\ \A s \in StoryIdsOf(tc) : tc.id \in Members(cov.stories, s)
  /\ tc.id \in Members(cov.types.tests, tc.type)

C4_AddTestCaseAtomic ==
  [][ AddStep =>
        \/ /\ lastCall'.threw = "none"
           /\ FullyRecorded(Submitted(lastCall'), testCases', coverage')
        \/ /\ lastCall'.threw # "none"
           /\ UNCHANGED <<testCases, coverage>> ]_vars

(***************************************************************************)
(* C5: the coverage index never shrinks: across every operation, every key *)
(* of each of the four coverage mappings is still present and its set of   *)
(* test-case ids afterwards is a superset of its set before.               *)
(***************************************************************************)
GrowsOnly(before, after) ==
  \A k \in DOMAIN before : k \in DOMAIN after /\ Range(before[k]) \subseteq Range(after[k])

C5_CoverageNeverShrinks ==
  [][ /\ GrowsOnly(coverage.requirements, coverage'.requirements)
      /\ GrowsOnly(coverage.stories, coverage'.stories)
      /\ GrowsOnly(coverage.types.requirements, coverage'.types.requirements)
      /\ GrowsOnly(coverage.types.tests, coverage'.types.tests) ]_vars

\* A second test case was added to a requirement that was already covered,
\* and the first one is still in the set.
C5_Witness ==
  /\ lastCall.op \in {"addTestCase", "rtm:addTestCase"}
  /\ lastCall.threw = "none"
  /\ \E r \in DOMAIN coverage.requirements :
       /\ Len(coverage.requirements[r]) >= 2
       /\ coverage.requirements[r][Len(coverage.requirements[r])] = lastCall.arg.id

(***************************************************************************)
(* C6: after addTestCase succeeds for a test case tc, tc is stored under   *)
(* tc.id and tc.id is a member of coverage.requirements[r] and of          *)
(* coverage.types.requirements[type of r] for every r in tc.requirements,  *)
(* of coverage.stories[s] for every s in tc.userStories and of             *)
(* coverage.types.tests[tc.type]; a missing set is created on first touch. *)
(***************************************************************************)
C6_SuccessfulAddRecordsCoverage ==
  [][ (AddStep /\ lastCall'.threw = "none")
        => LET tc == Submitted(lastCall')
           IN /\ tc.id \in DOMAIN testCases' /\ testCases'[tc.id] = tc
              /\ \A r \in RequirementIdsOf(tc) :
                   /\ r \in DOMAIN coverage'.requirements
                   /\ tc.id \in Range(coverage'.requirements[r])
                   /\ requirements[r].type \in DOMAIN coverage'.types.requirements
                   /\ tc.id \in Range(coverage'.types.requirements[requirements[r].type])
              /\ \A s \in StoryIdsOf(tc) :
                   /\ s \in DOMAIN coverage'.stories
                   /\ tc.id \in Range(coverage'.stories[s])
              /\ tc.type \in DOMAIN coverage'.types.tests
              /\ tc.id \in Range(coverage'.types.tests[tc.type]) ]_vars

\* A test case linked to a requirement and a user story was added, and the
\* sets of the requirement, of its type and of the test type were created
\* by this very call.
C6_Witness ==
  /\ lastCall.op = "addTestCase"
  /\ lastCall.threw = "none"
  /\ RequirementIdsOf(lastCall.arg) # {}
  /\ StoryIdsOf(lastCall.arg) # {}
  /\ \A r \in RequirementIdsOf(lastCall.arg) :
       coverage.requirements[r] = <<lastCall.arg.id>>
  /\ coverage.types.tests[lastCall.arg.type] = <<lastCall.arg.id>>

(***************************************************************************)
(* C7: adding the same valid test case (same id, same fields) twice does   *)
(* not throw and does not double-count: after the second call the          *)
(* test-case store and every coverage set are identical to the state after *)
(* the first call, and each coverage set contains an id at most once.      *)
(***************************************************************************)
NoDuplicates(seq) == \A i, j \in 1..Len(seq) : seq[i] = seq[j] => i = j

SetsHaveNoDuplicates(map) == \A k \in DOMAIN map : NoDuplicates(map[k])

\* The previous call added a test case and returned, and this step is the
\* same call with the same argument.
SameAddAgain ==
  /\ AddStep
  /\ lastCall.op = lastCall'.op
  /\ lastCall.threw = "none"
  /\ lastCall.arg = lastCall'.arg

C7_ReaddingIsIdempotent ==
  [][ SameAddAgain
        => /\ lastCall'.threw = "none"
           /\ UNCHANGED <<testCases, coverage, suites, requirements, userStories>>
           /\ SetsHaveNoDuplicates(coverage'.requirements)
           /\ SetsHaveNoDuplicates(coverage'.stories)
           /\ SetsHaveNoDuplicates(coverage'.types.requirements)
           /\ SetsHaveNoDuplicates(coverage'.types.tests) ]_vars

\* The same linked test case has been added twice in a row.
C7_Witness ==
  /\ lastCall.again
  /\ lastCall.op = "addTestCase"
  /\ lastCall.threw = "none"
  /\ RequirementIdsOf(lastCall.arg) # {}
  /\ StoryIdsOf(lastCall.arg) # {}
  /\ DOMAIN testCases = {lastCall.arg.id}
  /\ testCases[lastCall.arg.id] = lastCall.arg
  /\ DOMAIN suites = {}
  /\ DOMAIN coverage.types.tests = {lastCall.arg.type}
  /\ DOMAIN coverage.requirements = RequirementIdsOf(lastCall.arg)

(***************************************************************************)
(* C8: RTMTasks.validateRequirement(id) returns true exactly when id is a  *)
(* key of the requirement store, RTMTasks.validateStory(id) exactly when   *)
(* id is a key of the user-story store; neither throws; on true an empty   *)
(* coverage set is created for the id if none exists; on false no state    *)
(* changes.                                                                *)
(***************************************************************************)
\* after = before, plus an empty set under key if key had no entry
Seeded(before, after, key) ==
  /\ DOMAIN after = DOMAIN before \cup {key}
  /\ \A k \in DOMAIN before : after[k] = before[k]
  /\ key \notin DOMAIN before => after[key] = <<>>

ValidateRequirementStep == calls' = calls + 1 /\ lastCall'.op = "rtm:validateRequirement"

ValidateStoryStep == calls' = calls + 1 /\ lastCall'.op = "rtm:validateStory"

C8_ExistenceChecks ==
  [][ /\ ValidateRequirementStep =>
           /\ lastCall'.threw = "none"
           /\ lastCall'.ret = Bool(lastCall'.arg \in DOMAIN requirements)
           /\ UNCHANGED <<requirements, userStories, testCases, suites>>
           /\ coverage'.stories = coverage.stories
           /\ coverage'.types = coverage.types
           /\ IF lastCall'.arg \in DOMAIN requirements
              THEN Seeded(coverage.requirements, coverage'.requirements, lastCall'.arg)
              ELSE coverage' = coverage
      /\ ValidateStoryStep =>
           /\ lastCall'.threw = "none"
           /\ lastCall'.ret = Bool(lastCall'.arg \in DOMAIN userStories)
           /\ UNCHANGED <<requirements, userStories, testCases, suites>>
           /\ coverage'.requirements = coverage.requirements
           /\ coverage'.types = coverage.types
           /\ IF lastCall'.arg \in DOMAIN userStories
              THEN Seeded(coverage.stories, coverage'.stories, lastCall'.arg)
              ELSE coverage' = coverage ]_vars

\* A stored requirement that no test case had touched was validated: the
\* call returned true and left an empty coverage set behind.
C8_Witness ==
  /\ lastCall.op = "rtm:validateRequirement"
  /\ lastCall.ret = "true"
  /\ lastCall.arg \in DOMAIN coverage.requirements
  /\ coverage.requirements[lastCall.arg] = <<>>
  /\ DOMAIN testCases # {}

(***************************************************************************)
(* C9: existence validation is idempotent and does not change acceptance:  *)
(* repeating validateRequirement / validateStory on the same id yields the *)
(* same state as calling it once, a validation never replaces or empties   *)
(* an existing coverage set, and for every candidate the outcome of        *)
(* validateTestCase / addTestCase is the same before and after it.         *)
(***************************************************************************)
SameValidationAgain ==
  /\ ValidateRequirementStep \/ ValidateStoryStep
  /\ lastCall.op = lastCall'.op
  /\ lastCall.arg = lastCall'.arg

C9_ValidationIdempotentAndNeutral ==
  [][ /\ SameValidationAgain =>
           /\ lastCall'.ret = lastCall.ret
           /\ lastCall'.threw = lastCall.threw
           /\ UNCHANGED <<requirements, userStories, testCases, suites, coverage>>
      /\ (ValidateRequirementStep \/ ValidateStoryStep) =>
           /\ \A k \in DOMAIN coverage.requirements :
                k \in DOMAIN coverage'.requirements
                  /\ coverage'.requirements[k] = coverage.requirements[k]
           /\ \A k \in DOMAIN coverage.stories :
                k \in DOMAIN coverage'.stories
                  /\ coverage'.stories[k] = coverage.stories[k]
           /\ \A c \in Candidates :
                /\ validateTestCase(c)' = validateTestCase(c)
                /\ CypressRTM_addTestCase(c).threw' = CypressRTM_addTestCase(c).threw ]_vars

\* A user story covered by a test case was validated twice in a row and its
\* coverage set still holds the test case.
C9_Witness ==
  /\ lastCall.again
  /\ lastCall.op = "rtm:validateStory"
  /\ lastCall.ret = "true"
  /\ coverage.stories[lastCall.arg] # <<>>

(***************************************************************************)
(* C10: applySuiteToTests(suiteId) for an existing suite replaces, in      *)
(* every stored test case whose suiteId equals suiteId, the requirements,  *)
(* userStories and tags fields with the deduplicated union of the test     *)
(* case's own values followed by the suite's values, in first-occurrence   *)
(* order; a list missing on either side counts as empty.                   *)
(***************************************************************************)
ListOrMissing(obj, key) == Has(obj, key) => obj[key].isArray

ListOf(obj, key) == IF Has(obj, key) THEN obj[key].items ELSE <<>>

FirstIndex(seq, x) == CHOOSE i \in 1..Len(seq) : seq[i] = x /\ \A j \in 1..(i - 1) : seq[j] # x

\* result holds each value of own \o extra once, ordered by first occurrence
IsOrderedUnion(result, own, extra) ==
  /\ NoDuplicates(result)
  /\ Range(result) = Range(own) \cup Range(extra)
  /\ \A i, j \in 1..Len(result) :
       i < j => FirstIndex(own \o extra, result[i]) < FirstIndex(own \o extra, result[j])

ApplySuiteStep == calls' = calls + 1 /\ lastCall'.op = "rtm:applySuiteToTests"

C10_SuiteMergedIntoItsTests ==
  [][ (ApplySuiteStep /\ lastCall'.arg \in DOMAIN suites)
        => /\ lastCall'.threw = "none"
           /\ \A t \in DOMAIN testCases :
                (Has(testCases[t], "suiteId") /\ testCases[t].suiteId = lastCall'.arg)
                  => \A f \in {"requirements", "userStories", "tags"} :
                       (ListOrMissing(testCases[t], f) /\ ListOrMissing(suites[lastCall'.arg], f))
                         => /\ t \in DOMAIN testCases'
                            /\ Has(testCases'[t], f)
                            /\ testCases'[t][f].isArray
                            /\ IsOrderedUnion(testCases'[t][f].items,
                                              ListOf(testCases[t], f),
                                              ListOf(suites[lastCall'.arg], f)) ]_vars

\* Suite TS-001 with requirements [REQ-001] and tags [regression] was applied
\* to a test case holding requirements [REQ-002], tags [smoke] and no
\* userStories field.
C10_Witness ==
  /\ lastCall.op = "rtm:applySuiteToTests"
  /\ lastCall.threw = "none"
  /\ \E t \in DOMAIN testCases :
       /\ Has(testCases[t], "suiteId") /\ testCases[t].suiteId = lastCall.arg
       /\ testCases[t].requirements.items = <<"REQ-002", "REQ-001">>
       /\ testCases[t].tags.items = <<"smoke", "regression">>
       /\ testCases[t].userStories.items = <<"US-001">>

(***************************************************************************)
(* C11: applySuiteToTests called with an id under which no suite is stored *)
(* throws SUITE_NOT_FOUND and leaves every test case, every suite and the  *)
(* four coverage mappings as they were.                                    *)
(***************************************************************************)
C11_UnknownSuiteThrowsAndChangesNothing ==
  [][ (ApplySuiteStep /\ lastCall'.arg \notin DOMAIN suites)
        => /\ lastCall'.threw = "SUITE_NOT_FOUND"
           /\ UNCHANGED <<testCases, suites, coverage, requirements, userStories>> ]_vars

\* A stored test case names a suite that was never added, and that suite id
\* was applied.
C11_Witness ==
  /\ lastCall.op = "rtm:applySuiteToTests"
  /\ lastCall.threw = "SUITE_NOT_FOUND"
  /\ lastCall.arg \notin DOMAIN suites
  /\ \E t \in DOMAIN testCases :
       Has(testCases[t], "suiteId") /\ testCases[t].suiteId = lastCall.arg

(***************************************************************************)
(* C12: applySuiteToTests(suiteId) changes nothing but the requirements,   *)
(* userStories and tags fields of the test cases whose suiteId equals      *)
(* suiteId: the other fields of those test cases, the test cases of other  *)
(* suites or of none, the suite store, the requirement and user-story      *)
(* stores and the four coverage mappings are unchanged (the coverage index *)
(* is not brought up to date with the merged lists).                       *)
(***************************************************************************)
MergedFields == {"requirements", "userStories", "tags"}

InSuiteOf(tc, suiteId) == Has(tc, "suiteId") /\ tc.suiteId = suiteId

IsCritical(r) == r \in DOMAIN requirements /\ requirements[r].priority = "p0-critical"

HasNoCoveringTest(r) ==
  /\ Members(coverage.requirements, r) = {}
  /\ StoredTestsWith(LAMBDA tc : r \in RequirementIdsOf(tc)) = {}

ReportedUncoveredCritical(r) ==
  \E i \in 1..Len(getCriticalGaps) :
    /\ getCriticalGaps[i].type = "uncovered_critical_requirement"
    /\ getCriticalGaps[i].requirementId = r

C13_UncoveredCriticalAlwaysReported ==
  \A r \in RequirementIds :
    (IsCritical(r) /\ HasNoCoveringTest(r)) => ReportedUncoveredCritical(r)

(***************************************************************************)
(* C14: once addTestCase has accepted a test case that lists a p0-critical *)
(* requirement, getCriticalGaps does not report that requirement as        *)
(* uncovered_critical_requirement, and a requirement that is not reported  *)
(* stays unreported across every later operation.                          *)
(***************************************************************************)
C14_CoveredCriticalStaysOffTheList ==
  [][ \A r \in RequirementIds :
        IsCritical(r) =>
          /\ (AddStep /\ lastCall'.threw = "none"
                /\ r \in RequirementIdsOf(Submitted(lastCall')))
               => ~ReportedUncoveredCritical(r)'
          /\ ~ReportedUncoveredCritical(r) => ~ReportedUncoveredCritical(r)' ]_vars

\* REQ-001 was covered by a test case whose stored record no longer lists
\* it, and getCriticalGaps returned without an uncovered_critical entry.
C14_Witness ==
  /\ lastCall.op = "getCriticalGaps"
  /\ IsCritical("REQ-001")
  /\ Members(coverage.requirements, "REQ-001") # {}
  /\ StoredTestsWith(LAMBDA tc : "REQ-001" \in RequirementIdsOf(tc)) = {}
  /\ \A i \in 1..Len(lastCall.ret) : lastCall.ret[i].type # "uncovered_critical_requirement"

(***************************************************************************)
(* C15: getCriticalGaps reports security_requirement_no_security_test for  *)
(* a requirement exactly when the requirement is of type security and no   *)
(* test case of its coverage set has type security in its stored record;   *)
(* a security requirement with no coverage entry is reported.              *)
(***************************************************************************)
ReportedNoSecurityTest(gaps, r) ==
  \E i \in 1..Len(gaps) :
    /\ gaps[i].type = "security_requirement_no_security_test"
    /\ gaps[i].requirementId = r

CoveredBySecurityTest(r) ==
  \E t \in Members(coverage.requirements, r) :
    t \in DOMAIN testCases /\ Has(testCases[t], "type") /\ testCases[t].type = "security"

GapsStep == calls' = calls + 1 /\ lastCall'.op = "getCriticalGaps"

C15_SecurityGapExactlyWhenNoSecurityTest ==
  [][ GapsStep =>
        \A r \in RequirementIds :
          ReportedNoSecurityTest(lastCall'.ret, r)
            <=> /\ r \in DOMAIN requirements
                /\ requirements[r].type = "security"
                /\ ~CoveredBySecurityTest(r) ]_vars

\* The security requirement REQ-002 is covered by a test case of another
\* type only, and getCriticalGaps reported it.
C15_Witness ==
  /\ lastCall.op = "getCriticalGaps"
  /\ Members(coverage.requirements, "REQ-002") # {}
  /\ ReportedNoSecurityTest(lastCall.ret, "REQ-002")

(***************************************************************************)
(* C16: in the coverage-by-priority aggregation there is one entry for     *)
(* each priority present among the stored requirements; its total is the   *)
(* number of stored requirements of that priority and its covered is the   *)
(* number of those whose coverage entry holds at least one test-case id.   *)
(***************************************************************************)
ReportStep == calls' = calls + 1 /\ lastCall'.op = "collectReportData"

RequirementsOfPriority(p) == {r \in DOMAIN requirements : requirements[r].priority = p}

C16_CoveredByPriorityCountsNonEmptyEntries ==
  [][ ReportStep =>
        LET byPriority == lastCall'.ret.coverage.byPriority
        IN /\ DOMAIN byPriority = {requirements[r].priority : r \in DOMAIN requirements}
           /\ \A p \in DOMAIN byPriority :
                /\ byPriority[p].total = Cardinality(RequirementsOfPriority(p))
                /\ byPriority[p].covered =
                     Cardinality({r \in RequirementsOfPriority(p) :
                                    Members(coverage.requirements, r) # {}}) ]_vars

(***************************************************************************)
(* C17: whenever its denominator is 0 (no stored requirements, no stored   *)
(* user stories, no requirements of a type or priority, no test cases),    *)
(* every percentage returned by generateSummary, getCoverageStats, the     *)
(* by-type and by-priority aggregations and the rtm:getCoverage task is 0, *)
(* never NaN, and the call does not throw.                                 *)
(***************************************************************************)
ZeroWhenEmpty(percentage, denominator) == denominator = 0 => percentage = Zero

AllZeroWhenEmpty(byKey) ==
  \A k \in DOMAIN byKey : ZeroWhenEmpty(byKey[k].percentage, byKey[k].total)

PercentageStep ==
  /\ calls' = calls + 1
  /\ lastCall'.op \in {"collectReportData", "collectReportData (execution)",
                       "getCoverageStats", "rtm:getCoverage"}

C17_PercentageIsZeroOnEmptyDenominator ==
  [][ PercentageStep =>
        LET ret == lastCall'.ret
        IN /\ lastCall'.threw = "none"
           /\ lastCall'.op = "collectReportData" =>
                /\ ZeroWhenEmpty(ret.summary.coverage.requirements.percentage, Size(requirements))
                /\ ZeroWhenEmpty(ret.summary.coverage.userStories.percentage, Size(userStories))
                /\ AllZeroWhenEmpty(ret.coverage.byType.requirements)
                /\ AllZeroWhenEmpty(ret.coverage.byPriority)
           /\ lastCall'.op = "collectReportData (execution)" =>
                ZeroWhenEmpty(ret.summary.execution.percentagePassed, Size(testCases))
           /\ lastCall'.op = "getCoverageStats" =>
                /\ ZeroWhenEmpty(ret.requirements.percentage, Size(requirements))
                /\ ZeroWhenEmpty(ret.stories.percentage, Size(userStories))
                /\ AllZeroWhenEmpty(ret.byType.requirements)
           /\ lastCall'.op = "rtm:getCoverage" =>
                /\ ZeroWhenEmpty(ret.requirements.percentage, Size(requirements))
                /\ ZeroWhenEmpty(ret.stories.percentage, Size(userStories)) ]_vars

(***************************************************************************)
(* C18: the aggregation functions (generateSummary, getCoverageStats, the  *)
(* by-type and by-priority aggregations, generateTraceabilityMatrix,       *)
(* getUncoveredItems, getCriticalGaps, the details functions) leave the    *)
(* entity stores and the coverage index as they are, and a second call     *)
(* with no other call in between returns a result equal to the first.      *)
(***************************************************************************)
ReportOps == {"collectReportData", "collectReportData (execution)"}

AggregationOps == ReportOps \cup {"getCoverageStats", "getUncoveredItems", "getCriticalGaps"}

AggregationStep == calls' = calls + 1 /\ lastCall'.op \in AggregationOps

\* what the aggregation functions returned in the call described by c
Aggregates(c) == IF c.op \in ReportOps THEN Without(c.ret, "timestamp") ELSE c.ret

C19_UncoveredListsAgree ==
  /\ getUncoveredItems.requirements = getUncoveredRequirements
  /\ getUncoveredItems.stories = getUncoveredUserStories

(***************************************************************************)
(* C20: loading is fail-fast without partial population: when a record of  *)
(* the requirements input fails validation, loading throws and the         *)
(* requirement store holds none of the records of that input, the valid    *)
(* ones before the invalid one included; likewise for the user stories.    *)
(***************************************************************************)
InitStep == lastCall'.op = "init" /\ phase = "constructed"

HasInvalidRequirement(file) ==
  file.readable /\ \E i \in 1..Len(file.entries) : ~validateRequirement(file.entries[i][2])

HasInvalidUserStory(file) ==
  /\ file.readable
  /\ \E i \in 1..Len(file.entries) :
       ~(Has(file.entries[i][2], "id") /\ Has(file.entries[i][2], "title"))

IdsOf(file) == {file.entries[i][1] : i \in 1..Len(file.entries)}

C20_FailedLoadLeavesNothingBehind ==
  [][ InitStep =>
        LET fixture == lastCall'.arg
        IN /\ HasInvalidRequirement(fixture.requirementsFile) =>
                /\ lastCall'.threw # "none"
                /\ IdsOf(fixture.requirementsFile) \cap DOMAIN requirements' = {}
           /\ (~HasInvalidRequirement(fixture.requirementsFile)
                 /\ fixture.requirementsFile.readable
                 /\ HasInvalidUserStory(fixture.userStoriesFile)) =>
                /\ lastCall'.threw # "none"
                /\ IdsOf(fixture.userStoriesFile) \cap DOMAIN userStories' = {} ]_vars

(***************************************************************************)
(* C21: the totalTestCases of the summary is the number of entries of the  *)
(* test-case store, and that number is the number of distinct test-case    *)
(* ids addTestCase has accepted so far: it grows by one when addTestCase   *)
(* returns for an id that is not stored yet and is left alone by a         *)
(* rejected candidate, by a re-added id and by every other operation.      *)
(***************************************************************************)
SummaryStep == calls' = calls + 1 /\ lastCall'.op \in ReportOps

AcceptsNewId ==
  /\ AddStep
  /\ lastCall'.threw = "none"
  /\ Submitted(lastCall').id \notin DOMAIN testCases

C21_TotalTestCasesCountsAcceptedIds ==
  [][ /\ SummaryStep => lastCall'.ret.summary.totalTestCases = Size(testCases)
      /\ AcceptsNewId => Size(testCases') = Size(testCases) + 1
      /\ ~AcceptsNewId => Size(testCases') = Size(testCases) ]_vars

(***************************************************************************)
(* C22: the traceability matrix has in requirementsToTests one key per     *)
(* entry of coverage.requirements, mapped to the entry's test-case ids in  *)
(* insertion order; in storiesToRequirements and storiesToTests one key    *)
(* per stored user story, mapped to the linkedRequirements of the story    *)
(* record (empty if absent, never derived from the test cases) and to the  *)
(* ids of the story's coverage entry (empty if there is none).             *)
(***************************************************************************)
C22_TraceabilityMatrixMirrorsIndexAndStories ==
  [][ ReportStep =>
        LET matrix == lastCall'.ret.traceabilityMatrix
        IN /\ DOMAIN matrix.requirementsToTests = DOMAIN coverage.requirements
           /\ \A r \in DOMAIN coverage.requirements :
                matrix.requirementsToTests[r] = coverage.requirements[r]
           /\ DOMAIN matrix.storiesToRequirements = DOMAIN userStories
           /\ DOMAIN matrix.storiesToTests = DOMAIN userStories
           /\ \A st \in DOMAIN userStories :
                /\ matrix.storiesToRequirements[st] =
                     IF Has(userStories[st], "linkedRequirements")
                     THEN userStories[st].linkedRequirements ELSE <<>>
                /\ matrix.storiesToTests[st] =
                     IF st \in DOMAIN coverage.stories THEN coverage.stories[st] ELSE <<>> ]_vars

\* The matrix was built while US-002, which declares no linked requirement,
\* was covered by a test case of REQ-002, and US-001 had no covering test.
C22_Witness ==
  /\ lastCall.op = "collectReportData"
  /\ {"US-001", "US-002"} \subseteq DOMAIN lastCall.ret.traceabilityMatrix.storiesToTests
  /\ lastCall.ret.traceabilityMatrix.storiesToTests["US-002"] # <<>>
  /\ lastCall.ret.traceabilityMatrix.storiesToRequirements["US-002"] = <<>>
  /\ lastCall.ret.traceabilityMatrix.storiesToTests["US-001"] = <<>>
  /\ "REQ-002" \in DOMAIN lastCall.ret.traceabilityMatrix.requirementsToTests

(***************************************************************************)
(* C23: for a candidate whose id, title, type and priority are present and *)
(* in the test-type and test-priority enums, validateTestCase returns true *)
(* exactly when requirements is absent or is a list whose every element is *)
(* a key of the requirement store; one requirement id that is not stored   *)
(* makes it false whatever the other fields are; it returns false rather   *)
(* than throw, and changes no state.                                       *)
(***************************************************************************)
ValidateTestCaseStep == lastCall'.op = "validateTestCase" /\ lastCall' # lastCall

RequiredFieldsInEnums(tc) == ~MissingRequiredField(tc) /\ ~OutOfEnum(tc)

RequirementsAbsentOrAllStored(tc) ==
  \/ ~Has(tc, "requirements")
  \/ tc.requirements.isArray /\ RequirementIdsOf(tc) \subseteq DOMAIN requirements

C23_ValidateTestCaseExact ==
  [][ ValidateTestCaseStep =>
        LET tc == lastCall'.arg
        IN /\ lastCall'.threw = "none"
           /\ lastCall'.ret \in {"true", "false"}
           /\ RequiredFieldsInEnums(tc) =>
                (lastCall'.ret = "true" <=> RequirementsAbsentOrAllStored(tc))
           /\ (\E r \in RequirementIdsOf(tc) : r \notin DOMAIN requirements) =>
                lastCall'.ret = "false"
           /\ UNCHANGED <<phase, requirements, userStories, testCases, suites, coverage>> ]_vars

\* A candidate that is valid but for one unknown id next to a stored one was
\* refused.
C23_Witness ==
  /\ lastCall.op = "validateTestCase"
  /\ lastCall.ret = "false"
  /\ RequiredFieldsInEnums(lastCall.arg)
  /\ "REQ-404" \in RequirementIdsOf(lastCall.arg)
  /\ "REQ-001" \in RequirementIdsOf(lastCall.arg) \cap DOMAIN requirements

(***************************************************************************)
(* C24: validateRequirement returns true exactly when the candidate has    *)
(* id, title, type and priority, its type is one of the seven requirement  *)
(* types and its priority one of the four requirement priorities; taking a *)
(* required field away from an accepted record, or putting a value outside *)
(* the enum in, makes it false; it never throws.                           *)
(***************************************************************************)
ValidateRequirementRecordStep == lastCall'.op = "validateRequirement" /\ lastCall' # lastCall

SevenRequirementTypes ==
  {"functional", "security", "performance", "accessibility", "compliance",
   "technical", "infrastructure"}

FourRequirementPriorities == {"p0-critical", "p1-high", "p2-medium", "p3-low"}

WellFormedRequirement(req) ==
  /\ \A f \in {"id", "title", "type", "priority"} : Has(req, f)
  /\ req.type \in SevenRequirementTypes
  /\ req.priority \in FourRequirementPriorities

C24_ValidateRequirementExact ==
  [][ ValidateRequirementRecordStep =>
        LET req == lastCall'.arg
        IN /\ lastCall'.threw = "none"
           /\ lastCall'.ret = Bool(WellFormedRequirement(req))
           /\ lastCall'.ret = "true" =>
                /\ \A f \in {"id", "title", "type", "priority"} :
                     ~validateRequirement(Without(req, f))
                /\ \A ty \in TEST_TYPES \ SevenRequirementTypes :
                     ~validateRequirement(MapSet(req, "type", ty))
                /\ \A pr \in TEST_PRIORITIES :
                     ~validateRequirement(MapSet(req, "priority", pr)) ]_vars

\* A record with the four fields present and a type taken from the test-type
\* enum was refused.
C24_Witness ==
  /\ lastCall.op = "validateRequirement"
  /\ lastCall.ret = "false"
  /\ \A f \in {"id", "title", "type", "priority"} : Has(lastCall.arg, f)
  /\ lastCall.arg.type \notin SevenRequirementTypes

(***************************************************************************)
(* C25: a suite record is created once and is immutable afterwards: once   *)
(* addSuite has stored a suite under an id, no later operation, another    *)
(* addSuite with the same id included, changes the record under that id.   *)
(***************************************************************************)
C25_StoredSuiteNeverChanges ==
  [][ \A id \in DOMAIN suites : id \in DOMAIN suites' /\ suites'[id] = suites[id] ]_vars

(***************************************************************************)
(* C26: addSuite(suite) stores under suite.id a record with every field of *)
(* suite and a creation timestamp, validates neither the type, the         *)
(* priority nor the requirement and story ids of the suite, and leaves the *)
(* test-case store and the coverage index unchanged.                       *)
(***************************************************************************)
AddSuiteStep == calls' = calls + 1 /\ lastCall'.op = "rtm:addSuite"

C26_AddSuiteStoresAsIs ==
  [][ AddSuiteStep =>
        LET suite == lastCall'.arg
        IN /\ lastCall'.threw = "none"
           /\ suite.id \in DOMAIN suites'
           /\ DOMAIN suites'[suite.id] = (DOMAIN suite) \cup {"timestamp"}
           /\ \A f \in (DOMAIN suite) \ {"timestamp"} : suites'[suite.id][f] = suite[f]
           /\ suites'[suite.id].timestamp = clock'
           /\ clock' >= clock
           /\ \A other \in (DOMAIN suites) \ {suite.id} :
                other \in DOMAIN suites' /\ suites'[other] = suites[other]
           /\ UNCHANGED <<testCases, coverage, requirements, userStories>> ]_vars

\* A suite without type and priority that names the unknown REQ-404 was
\* stored while a test case and its coverage were in the stores.
C26_Witness ==
  /\ lastCall.op = "rtm:addSuite"
  /\ lastCall.threw = "none"
  /\ ~Has(lastCall.arg, "type") /\ ~Has(lastCall.arg, "priority")
  /\ "REQ-404" \in Range(Items(lastCall.arg, "requirements"))
  /\ lastCall.arg.id \in DOMAIN suites
  /\ suites[lastCall.arg.id].requirements = lastCall.arg.requirements
  /\ DOMAIN testCases # {}
  /\ DOMAIN coverage.requirements # {}

(***************************************************************************)
(* C27  In a run driven through the requirement and userStory commands,    *)
(* the rtm:addTestCase task is issued only by the callback of a validation *)
(* task that returned true, for the id that was validated; when the        *)
(* validation returned false the callback throws "Invalid requirement ID" *)
(* or "Invalid user story ID", no task is issued and nothing is stored.    *)
(***************************************************************************)
IssuesAddTestCase == lastCall'.op = "rtm:addTestCase" /\ calls' = calls + 1

ValidatedTrue(op) == lastCall.op = op /\ lastCall.ret = "true"

ValidatedFalse(op) == lastCall.op = op /\ lastCall.ret = "false"

C27_AddTestCaseOnlyAfterValidation ==
  [][ /\ IssuesAddTestCase =>
           \/ /\ ValidatedTrue("rtm:validateRequirement")
              /\ lastCall.arg \in DOMAIN requirements
              /\ lastCall'.arg.requirements = List(<<lastCall.arg>>)
              /\ ~Has(lastCall'.arg, "userStories")
           \/ /\ ValidatedTrue("rtm:validateStory")
              /\ lastCall.arg \in DOMAIN userStories
              /\ lastCall'.arg.userStories = List(<<lastCall.arg>>)
              /\ ~Has(lastCall'.arg, "requirements")
      /\ ValidatedFalse("rtm:validateRequirement") =>
           /\ lastCall'.threw = "Invalid requirement ID"
           /\ lastCall'.op # "rtm:addTestCase"
           /\ UNCHANGED <<calls, testCases, coverage>>
      /\ ValidatedFalse("rtm:validateStory") =>
           /\ lastCall'.threw = "Invalid user story ID"
           /\ lastCall'.op # "rtm:addTestCase"
           /\ UNCHANGED <<calls, testCases, coverage>> ]_vars

\* both outcomes have happened: a command registered its test case, then
\* the next command was refused
C27_Witness ==
  /\ lastCall.op = "requirement"
  /\ lastCall.threw = "Invalid requirement ID"
  /\ lastCall.arg \notin DOMAIN requirements
  /\ calls = 3
  /\ DOMAIN testCases # {}

(***************************************************************************)
(* C28  generateReports rejects with REPORT_GENERATION_ERROR exactly when  *)
(* a write of the reports failed; each report file is written at most once *)
(* per call, and the stores and the coverage index are left unchanged.     *)
(***************************************************************************)
GenerateReportsStep ==
  /\ lastCall'.op \in {"generateReports", "generateReports (execution)"}
  /\ calls' = calls + 1

WritesOf(call) == call.ret.writeFile

C28_ReportFailureIsRejectedNotRetried ==
  [][ GenerateReportsStep =>
        /\ Rejected(WritesOf(lastCall')) <=> lastCall'.threw = "REPORT_GENERATION_ERROR"
        /\ lastCall'.threw \in {"none", "REPORT_GENERATION_ERROR"}
        /\ \A i, j \in 1..Len(WritesOf(lastCall')) :
             WritesOf(lastCall')[i].file = WritesOf(lastCall')[j].file => i = j
        /\ UNCHANGED <<requirements, userStories, testCases, suites, coverage>> ]_vars

\* the JSON write was refused while test cases were stored
C28_Witness ==
  /\ lastCall.op = "generateReports"
  /\ lastCall.threw = "REPORT_GENERATION_ERROR"
  /\ WritesOf(lastCall)[1].result = "EACCES"
  /\ WritesOf(lastCall)[2].result = "written"
  /\ DOMAIN testCases # {}
  /\ DOMAIN coverage.requirements # {}

(***************************************************************************)
(* C29  Adding a test case that passes validation under an id that is      *)
(* already stored is not refused: the stored record becomes the new one,   *)
(* no other record changes, and every member of every coverage set         *)
(* (requirement, story, requirement-type, test-type) is still a member     *)
(* afterwards, whatever the new record links.                              *)
(***************************************************************************)
ReAddStep ==
  /\ AddStep
  /\ validateTestCase(Submitted(lastCall'))
  /\ Submitted(lastCall').id \in DOMAIN testCases

OnlyGrows(before, after) ==
  \A k \in DOMAIN before :
    k \in DOMAIN after /\ Range(before[k]) \subseteq Range(after[k])

C29_ReAddReplacesRecordKeepsCoverage ==
  [][ ReAddStep =>
        /\ lastCall'.threw # "INVALID_TEST_CASE"
        /\ testCases' = MapSet(testCases, Submitted(lastCall').id, Submitted(lastCall'))
        /\ OnlyGrows(coverage.requirements, coverage'.requirements)
        /\ OnlyGrows(coverage.stories, coverage'.stories)
        /\ OnlyGrows(coverage.types.requirements, coverage'.types.requirements)
        /\ OnlyGrows(coverage.types.tests, coverage'.types.tests) ]_vars

\* the stored record is the re-added one, which links neither REQ-001 nor
\* US-001, and the test is still counted for both
C29_Witness ==
  /\ lastCall.op \in {"addTestCase", "rtm:addTestCase"}
  /\ lastCall.threw = "none"
  /\ Has(lastCall.arg, "id")
  /\ lastCall.arg.id \in DOMAIN testCases
  /\ testCases[lastCall.arg.id] = Submitted(lastCall)
  /\ "REQ-001" \notin RequirementIdsOf(testCases[lastCall.arg.id])
  /\ "US-001" \notin StoryIdsOf(testCases[lastCall.arg.id])
  /\ testCases[lastCall.arg.id].type = "security"
  /\ "REQ-001" \in DOMAIN coverage.requirements
  /\ lastCall.arg.id \in Range(coverage.requirements["REQ-001"])
  /\ "US-001" \in DOMAIN coverage.stories
  /\ lastCall.arg.id \in Range(coverage.stories["US-001"])
  /\ "e2e" \in DOMAIN coverage.types.tests
  /\ lastCall.arg.id \in Range(coverage.types.tests["e2e"])

(***************************************************************************)
(* C30  In every reachable state, every requirement id listed in the       *)
(* requirements field of a stored test case is a key of the requirement    *)
(* store.                                                                  *)
(***************************************************************************)
C30_StoredTestCasesReferenceStoredRequirements ==
  \A t \in DOMAIN testCases : RequirementIdsOf(testCases[t]) \subseteq DOMAIN requirements

(***************************************************************************)
(* C31  In every reachable state every key of coverage.requirements is the *)
(* id of a stored requirement, so the index has no more entries than the   *)
(* requirement store.                                                      *)
(***************************************************************************)
C31_RequirementCoverageKeysAreStored ==
  /\ DOMAIN coverage.requirements \subseteq DOMAIN requirements
  /\ Size(coverage.requirements) <= Size(requirements)

\* an entry seeded by a validation task and an entry filled by a test case
C31_Witness ==
  /\ DOMAIN coverage.requirements = {"REQ-001", "REQ-002"}
  /\ coverage.requirements["REQ-001"] = <<>>
  /\ coverage.requirements["REQ-002"] # <<>>
  /\ lastCall.op = "rtm:validateRequirement"
  /\ lastCall.arg = "REQ-404"

(***************************************************************************)
(* C32  In every reachable state every key of coverage.stories is the id   *)
(* of a stored user story, so the index has no more entries than the story *)
(* store.                                                                  *)
(***************************************************************************)
C32_StoryCoverageKeysAreStored ==
  /\ DOMAIN coverage.stories \subseteq DOMAIN userStories
  /\ Size(coverage.stories) <= Size(userStories)

(***************************************************************************)
(* C33  Every coverage percentage reported lies between 0 and 100, and     *)
(* covered never exceeds total: the requirement and user-story percentages *)
(* of the report summary and of getCoverageStats, each percentage per      *)
(* requirement type, and each percentage per priority.                     *)
(***************************************************************************)
Between0And100(p) == p.kind = "finite" /\ 0 <= p.num /\ p.num <= 100 * p.den

CoveredWithinTotal(entry) == entry.covered <= entry.total /\ Between0And100(entry.percentage)

AllWithinTotal(byKey) == \A k \in DOMAIN byKey : CoveredWithinTotal(byKey[k])

C33_PercentagesBetween0And100 ==
  [][ /\ lastCall'.op = "collectReportData" =>
           /\ Between0And100(lastCall'.ret.summary.coverage.requirements.percentage)
           /\ Between0And100(lastCall'.ret.summary.coverage.userStories.percentage)
           /\ AllWithinTotal(lastCall'.ret.coverage.byType.requirements)
           /\ AllWithinTotal(lastCall'.ret.coverage.byPriority)
      /\ lastCall'.op = "getCoverageStats" =>
           /\ CoveredWithinTotal(lastCall'.ret.requirements)
           /\ CoveredWithinTotal(lastCall'.ret.stories)
           /\ AllWithinTotal(lastCall'.ret.byType.requirements) ]_vars

(***************************************************************************)
(* C34  A requirement or user story is counted as covered (covered count   *)
(* of the report summary and of getCoverageStats, isCovered of the report  *)
(* details) only if a stored test case lists it; with no test case stored  *)
(* the covered counts are 0.                                               *)
(***************************************************************************)
ListedRequirementIds == UNION {RequirementIdsOf(testCases[t]) : t \in DOMAIN testCases}

ListedStoryIds == UNION {StoryIdsOf(testCases[t]) : t \in DOMAIN testCases}

CoveredOnlyIfListed(details, listed) ==
  \A i \in DOMAIN details : details[i].coverage.isCovered => details[i].id \in listed

C34_CoveredOnlyIfListedByStoredTest ==
  [][ /\ lastCall'.op = "collectReportData" =>
           /\ lastCall'.ret.summary.coverage.requirements.covered
                <= Cardinality(ListedRequirementIds)
           /\ lastCall'.ret.summary.coverage.userStories.covered
                <= Cardinality(ListedStoryIds)
           /\ CoveredOnlyIfListed(lastCall'.ret.details.requirements, ListedRequirementIds)
           /\ CoveredOnlyIfListed(lastCall'.ret.details.userStories, ListedStoryIds)
      /\ lastCall'.op = "getCoverageStats" =>
           /\ lastCall'.ret.requirements.covered <= Cardinality(ListedRequirementIds)
           /\ lastCall'.ret.stories.covered <= Cardinality(ListedStoryIds) ]_vars

(***************************************************************************)
(* C35  In every reachable state each stored test-case id is a member of   *)
(* the test-type coverage set of its stored record's type and of no other  *)
(* test-type coverage set; hence the totals per test type that             *)
(* getTestTypeCoverage reports sum to the number of stored test cases.     *)
(***************************************************************************)
RECURSIVE SumOfTotals(_, _)
SumOfTotals(byType, types) ==
  IF types = {} THEN 0
  ELSE LET type == CHOOSE x \in types : TRUE
       IN byType[type].total + SumOfTotals(byType, types \ {type})

C35_TestTypeSetsPartitionStoredTests ==
  /\ \A t \in DOMAIN testCases :
       \A type \in DOMAIN coverage.types.tests :
         t \in Range(coverage.types.tests[type]) <=> testCases[t].type = type
  /\ \A t \in DOMAIN testCases : testCases[t].type \in DOMAIN coverage.types.tests
  /\ SumOfTotals(getTestTypeCoverage, DOMAIN getTestTypeCoverage) = Size(testCases)

(***************************************************************************)
(* C36  In every reachable state, for each requirement type t of the       *)
(* index, coverage.types.requirements[t] holds exactly the test ids of     *)
(* coverage.requirements[r] over the stored requirements r of type t.      *)
(***************************************************************************)
TestsOfRequirementsOfType(type) ==
  UNION { Range(coverage.requirements[r]) :
            r \in {x \in DOMAIN requirements \cap DOMAIN coverage.requirements :
                     requirements[x].type = type} }

C36_TypeIndexAgreesWithRequirementIndex ==
  \A type \in DOMAIN coverage.types.requirements :
    Range(coverage.types.requirements[type]) = TestsOfRequirementsOfType(type)

\* both indexes filled by two test cases on requirements of two types
C36_Witness ==
  /\ DOMAIN coverage.types.requirements = {"functional", "security"}
  /\ Range(coverage.types.requirements["functional"]) = {TestIdPool[1]}
  /\ Range(coverage.types.requirements["security"]) = {TestIdPool[1], TestIdPool[2]}
  /\ DOMAIN coverage.requirements = {"REQ-001", "REQ-002"}

(***************************************************************************)
(* C37  For two test cases that pass validation and have different ids,    *)
(* registering them in either order, with an existence validation between  *)
(* the two registrations or none, gives the same test-case store and the   *)
(* same coverage mappings, read as sets.  The two orders are compared from *)
(* every reachable state in which the host can call a handler.             *)
(***************************************************************************)
Registration(testCase) == [handler |-> "addTestCase", arg |-> testCase]

\* A validation of an id that is not stored leaves the stores alone, as no
\* call at all does.
ValidationCalls ==
  {[handler |-> "none", arg |-> ""]}
    \cup {[handler |-> "rtm:validateRequirement", arg |-> reqId] : reqId \in DOMAIN requirements}
    \cup {[handler |-> "rtm:validateStory", arg |-> storyId] : storyId \in DOMAIN userStories}

\* the stores after one handler call
After(stores, call) ==
  CASE call.handler = "addTestCase" ->
         LET r == addTestCaseOn(stores, call.arg)
         IN [testCases |-> r.testCases, coverage |-> r.coverage]
    [] call.handler = "rtm:validateRequirement" ->
         [stores EXCEPT !.coverage = seedRequirementCoverage(@, call.arg)]
    [] call.handler = "rtm:validateStory" ->
         [stores EXCEPT !.coverage = seedStoryCoverage(@, call.arg)]
    [] OTHER -> stores

AsSets(map) == [k \in DOMAIN map |-> Range(map[k])]

StoresAsSets(stores) ==
  [testCases |-> stores.testCases,
   requirements |-> AsSets(stores.coverage.requirements),
   stories |-> AsSets(stores.coverage.stories),
   requirementTypes |-> AsSets(stores.coverage.types.requirements),
   testTypes |-> AsSets(stores.coverage.types.tests)]

ValidLinkedCandidates(id) == {tc \in LinkedCandidates(id) : validateTestCase(tc)}

C37_RegistrationOrderDoesNotMatter ==
  (phase = "ready" /\ calls < MaxCalls) =>
    LET now == [testCases |-> testCases, coverage |-> coverage]
        one == ValidLinkedCandidates(TestIdPool[1])
        other == ValidLinkedCandidates(TestIdPool[2])
        \* the stores after the first registration and the validation
        first == [tc \in one \cup other, v \in ValidationCalls |->
                    After(After(now, Registration(tc)), v)]
    IN \A tc1 \in one, tc2 \in other, v \in ValidationCalls :
         StoresAsSets(After(first[tc1, v], Registration(tc2)))
           = StoresAsSets(After(first[tc2, v], Registration(tc1)))

\* two test cases on the same requirement were registered, the second id
\* first: the coverage set lists them in that order
C37_Witness ==
  /\ lastCall.op = "addTestCase"
  /\ lastCall.threw = "none"
  /\ lastCall.arg.id = TestIdPool[1]
  /\ calls < MaxCalls
  /\ "REQ-001" \in DOMAIN coverage.requirements
  /\ coverage.requirements["REQ-001"] = <<TestIdPool[2], TestIdPool[1]>>
  /\ DOMAIN testCases = {TestIdPool[1], TestIdPool[2]}

(***************************************************************************)
(* C38  generateReports collects the report data once, and starts both     *)
(* writes with strings built from that one collection before any write     *)
(* has completed; whatever handlers do to the stores while the writes are  *)
(* pending, the JSON file and the HTML file carry the sections of that     *)
(* collection and agree with each other.                                   *)
(***************************************************************************)
Sections(content) ==
  [summary |-> content.summary, coverage |-> content.coverage,
   traceabilityMatrix |-> content.traceabilityMatrix, details |-> content.details]

ReportFiles == {"rtm-report.json", "rtm-report.html"}

C38_BothReportsFromOneSnapshot ==
  /\ Len(reportRun.data) <= 1
  /\ (reportRun.pending # {} \/ DOMAIN reportRun.files # {}) =>
       /\ Len(reportRun.data) = 1
       /\ {w.file : w \in reportRun.pending} \cup DOMAIN reportRun.files = ReportFiles
       /\ \A w \in reportRun.pending :
            Sections(w.content) = Sections(jsonContent(reportRun.data[1]))
       /\ \A f \in DOMAIN reportRun.files :
            Sections(reportRun.files[f]) = Sections(jsonContent(reportRun.data[1]))
       /\ \A f, g \in DOMAIN reportRun.files :
            Sections(reportRun.files[f]) = Sections(reportRun.files[g])

\* both files are written, and a test case registered while the writes were
\* pending is in the store and in neither file
C38_Witness ==
  /\ DOMAIN reportRun.files = ReportFiles
  /\ reportRun.pending = {}
  /\ lastCall.op = "rtm:addTestCase"
  /\ lastCall.threw = "none"
  /\ Size(testCases) = 2
  /\ reportRun.files["rtm-report.json"].summary.totalTestCases = 1
  /\ reportRun.files["rtm-report.html"].summary.totalTestCases = 1

(***************************************************************************)
(* C39  In a run driven through the commands no rtm:applySuiteToTests task *)
(* is issued and no stored test case carries a suiteId; the test-case      *)
(* store changes only in a step that issues rtm:addTestCase, and then by   *)
(* storing the submitted record: the metadata of a declared suite is       *)
(* never merged into a test case.                                          *)
(***************************************************************************)
C39_CommandsNeverApplySuites ==
  [][ /\ lastCall'.op # "rtm:applySuiteToTests"
      /\ \A t \in DOMAIN testCases' : ~Has(testCases'[t], "suiteId")
      /\ testCases' # testCases =>
           /\ lastCall'.op = "rtm:addTestCase"
           /\ testCases' = MapSet(testCases, lastCall'.arg.id, enhancedTestCase(lastCall'.arg))
      /\ lastCall'.op = "rtm:addSuite" => testCases' = testCases ]_vars

\* a suite of type security with a tag was declared after a test was
\* registered by the requirement command, and the stored test case has
\* neither
C39_Witness ==
  /\ lastCall.op = "rtm:addSuite"
  /\ "TS-Security Tests" \in DOMAIN suites
  /\ Has(suites["TS-Security Tests"], "type")
  /\ suites["TS-Security Tests"].type = "security"
  /\ TestIdPool[1] \in DOMAIN testCases
  /\ testCases[TestIdPool[1]].type = "e2e"
  /\ ~Has(testCases[TestIdPool[1]], "tags")
  /\ ~Has(testCases[TestIdPool[1]], "suiteId")

(***************************************************************************)
(* C40  The rtm:addTestCase task fills a missing type with e2e and a       *)
(* missing priority with p1-must-run and sets automated to true before it  *)
(* validates: a candidate that lacks only its type or its priority is      *)
(* stored with the defaults, and a candidate that still fails validation   *)
(* with the defaults makes the task throw INVALID_TEST_CASE with the       *)
(* stores as they were.                                                    *)
(***************************************************************************)
TaskAddStep == calls' = calls + 1 /\ lastCall'.op = "rtm:addTestCase"

WithDefaults(tc) ==
  [f \in (DOMAIN tc) \cup {"type", "priority", "automated"} |->
     IF f = "automated" THEN TRUE
     ELSE IF f \in DOMAIN tc THEN tc[f]
     ELSE IF f = "type" THEN "e2e" ELSE "p1-must-run"]

LacksOnlyTypeOrPriority(tc) ==
  /\ ~Has(tc, "type") \/ ~Has(tc, "priority")
  /\ ~FailsValidation(WithDefaults(tc))

C40_TaskDefaultsThenValidates ==
  [][ TaskAddStep =>
        LET tc == lastCall'.arg
            filled == WithDefaults(tc)
        IN /\ LacksOnlyTypeOrPriority(tc) =>
                /\ lastCall'.threw = "none"
                /\ testCases' = MapSet(testCases, tc.id, filled)
           /\ FailsValidation(filled) =>
                /\ lastCall'.threw = "INVALID_TEST_CASE"
                /\ UNCHANGED <<testCases, suites, coverage>> ]_vars

\* a candidate without type was stored with type e2e
C40_Witness ==
  /\ lastCall.op = "rtm:addTestCase"
  /\ lastCall.threw = "none"
  /\ ~Has(lastCall.arg, "type")
  /\ lastCall.arg.id \in DOMAIN testCases
  /\ testCases[lastCall.arg.id].type = "e2e"
  /\ testCases[lastCall.arg.id].automated

====
